---- MODULE Spec2Model ----
(***************************************************************************)
(* ui-test-automation: the capture / replay-decision / assertion / store   *)
(* engine.  One test case of the data file is followed through repeated    *)
(* executions (TestExecutor.executeTestCase), each merged into the         *)
(* persisted document by saveTestResults; the recorder's                   *)
(* verifyAndPersistRecordedActions is the second writer of that document.  *)
(*                                                                         *)
(* Texts (expected result, plan summary, observe prompts, URLs, logs) are  *)
(* finite sets of tokens: "text includes keyword" is token membership.     *)
(***************************************************************************)
EXTENDS Integers, Sequences, FiniteSets, TLC

\* ---------------------------------------------------------------- bounds
\* Number of natural-language steps of the test case loaded from the sheet.
NSteps == 2
\* Longest list of actions one recording session hands to the store.
MaxRec == 3

\* ----------------------------------------------------------------- data
\* ActionJson, reduced to what tells two actions apart: the step it was
\* planned for (-1: captured by the recorder) and its place in the list.
\* The candidates the planner finds for step idx: two actions.
CandidatesFor(idx) == << [s |-> idx, k |-> 1], [s |-> idx, k |-> 2] >>

\* Tokens of the texts.  "err" stands for a word of failureKeywords
\* ('error', 'fail', ...), "shibai" for the fixed word of the fallback log.
FailureKw == {"err", "shibai"}
SuccessKw == {"ok"}
UrlTokens == {"http"}
QuotedTokens == {"quoted"}

NoPlan == [shape |-> "none", summary |-> {}, items |-> <<>>]
PlanGood ==
    [shape |-> "ok", summary |-> {"sum"},
     items |-> << [kind |-> "url", text |-> {"dash"}],
                  [kind |-> "obs", text |-> {"btn"}] >>]
PlanErrPrompt ==
    [shape |-> "ok", summary |-> {"sum"},
     items |-> << [kind |-> "obs", text |-> {"err"}] >>]
\* Plans the LLM planner can answer with (all pass AssertionPlanSchema).
PlannerPlans == {PlanGood, PlanErrPrompt}
\* A persisted plan whose assertions array is empty or missing.
PlanNoItems == [shape |-> "noitems", summary |-> {"sum"}, items |-> <<>>]
\* A persisted plan with a non-empty assertions array holding an item that is
\* neither a string nor {type:'url', value}.
PlanBadItem ==
    [shape |-> "baditem", summary |-> {"sum"},
     items |-> << [kind |-> "bad", text |-> {"junk"}] >>]

VARIABLES
    \* --- the persisted per-case document (data JSON)
    caseSteps,      \* number of step texts of the case (testCase.steps.length)
    expected,       \* expectedResult of the case, a token set ({} = none)
    storedSteps,    \* result.steps : Seq of ActResultJson
    storedPlan,     \* result.assertionPlan
    storedStatus,   \* result.status ("none" while there is no result)
    storedError,    \* result.error
    storedLog,      \* result.log (<<>> = absent)
    \* --- one execution (index.ts main + TestExecutor)
    pc,             \* "idle" | "steps" | "assert" | "finished"
    hist,           \* stepHistory[tc.id] loaded by main (<<>> = none)
    histPlan,       \* assertionPlans[tc.id] loaded by main
    pw,             \* getPwPage() is non-null in the executors of this host
    i,              \* loop index of executeTestCase
    runSteps,       \* result.steps of the TestResult being built
    status,         \* result.status
    error,          \* result.error ("none" = null)
    resultPlan,     \* result.assertionPlan
    resultLog,      \* result.log assigned in the finally block
    logBuf,         \* caseLogBuffer
    \* --- observation of the calls made during the execution
    call,           \* the step attempted last: path, AI calls, driver calls
    aiCalls,        \* observe(instruction) and act(step) calls of this execution
    verif,          \* the assertion phase: plan used, planner calls, items run
    startedAfter,   \* lastWrite as it was when this execution loaded the file
    lastWrite       \* what the latest write of the document was

VARIABLES
    \* --- one call of runAssertionPlan on its own
    assertRun,      \* the plan, page.url(), the prompts observe matches, result
    \* --- the navigation block of executeTestCase on its own
    navRun,         \* the url of the case, what goto does, result
    \* --- index.ts main: the batch loop over the cases of the data file
    nCases,         \* testCases.length
    recordApi,      \* options.recordApi
    cfgMax,         \* options.maxConcurrency (0 = absent or not positive)
    mainPc,         \* where main is: "batch" | "await" | "save" | ...
    batchFrom,      \* the loop variable i of the batch loop
    batches,        \* sizes of the slices handed to Promise.all so far
    phase,          \* per case: where its callback of batch.map is
    session,        \* per case: this.stagehand of its executor is set
    outcome,        \* per case: status of the TestResult of executeAll
    closeCalls,     \* per case: calls of stagehand.close() on its session
    thrown,         \* per case: what its callback caught
    abortCause,     \* what the outer catch of main caught before exit(1)
    file,           \* content of the data file, a set of stored facts
    snap,           \* per case: the document saveApiRecords loaded
    saveSnap,       \* the document saveTestResults loaded
    recPc,          \* the recorder process: "idle" | "loaded" | "written"
    recSnap         \* the document the recorder loaded

VARIABLES
    \* --- a recording session: the page, ActionRecorder, RecorderMode.stop
    mode,           \* "record" (runRecordMode) | "run" (main with a trace)
    now,            \* Date.now() of page and host, in ms
    fieldValue,     \* number of edits the text field's value holds
    pending,        \* window._inputPending of the text field
    pageQueue,      \* window._uiRecordedActions
    hostActions,    \* ActionRecorder.actions
    nextPoll,       \* when the poll interval fires next
    captured,       \* number of interactions the page listeners have seen
    dropped,        \* ids recordAction has left out as duplicates
    recPhase,       \* "recording" | "stopped" | "released"
    trace,          \* "open" | "finalized" | "unsaved"
    saved           \* actions of the record file written by stop()

VARIABLES
    \* --- single calls followed on their own
    verdictRun,     \* the verdict branch: a run that plans, a run that reloads
    authRun,        \* CustomOpenAIClient.createChatCompletion: responses, calls
    persistRun,     \* verifyAndPersistRecordedActions: inputs, store before
    stopRun,        \* runRecordMode: the calls of RecorderMode.stop
    execRun         \* executeTestCase as a whole: what fails, what it returns

unitVars == << verdictRun, authRun, persistRun, stopRun, execRun >>

capVars == << mode, now, fieldValue, pending, pageQueue, hostActions,
              nextPoll, captured, dropped, recPhase, trace, saved >>

planVars == << assertRun, navRun >>
schedVars == << nCases, recordApi, cfgMax, mainPc, batchFrom, batches, phase,
                session, outcome, closeCalls, thrown, abortCause, file, snap,
                saveSnap, recPc, recSnap >>
xvars == << planVars, schedVars, capVars, unitVars >>

vars == << caseSteps, expected, storedSteps, storedPlan, storedStatus,
           storedError, storedLog, pc, hist, histPlan, pw, i, runSteps,
           status, error, resultPlan, resultLog, logBuf, call, aiCalls,
           verif, startedAfter, lastWrite >>

nonPlanVars == << vars, schedVars, capVars, unitVars >>
nonSchedVars == << vars, planVars, capVars, unitVars >>
nonCapVars == << vars, planVars, schedVars, unitVars >>
nonUnitVars == << vars, planVars, schedVars, capVars >>

storeVars == << caseSteps, expected, storedSteps, storedPlan, storedStatus,
                storedError, storedLog, lastWrite >>
runVars == << pc, hist, histPlan, pw, i, runSteps, status, error, resultPlan,
              resultLog, logBuf, call, aiCalls, verif, startedAfter >>

NoVerif == [ran |-> FALSE, used |-> NoPlan, plannerCalls |-> 0,
            itemsRun |-> 0, fallback |-> FALSE, fallbackCalls |-> 0,
            fallbackPrompt |-> {}, verified |-> FALSE]

\* ------------------------------------------------------- pure functions

Min(x, y) == IF x < y THEN x ELSE y

\* checkResultMatch(expected, actual), rule by rule.
checkResultMatch(exp, actual) ==
    IF actual \cap FailureKw # {} THEN FALSE
    ELSE IF exp \cap UrlTokens # {} /\ (exp \cap UrlTokens) \subseteq actual
        THEN TRUE
    ELSE IF exp \cap SuccessKw # {} /\ actual \cap SuccessKw # {} THEN TRUE
    ELSE IF exp \cap QuotedTokens # {}
            /\ (exp \cap QuotedTokens) \subseteq actual THEN TRUE
    ELSE exp \cap actual # {}

\* waitForPageLoadIfUrlChanged: waitRejects = waitForLoadState('networkidle')
\* rejected (its timeout elapsed); urlChanged = page.url() differs afterwards.
waitForPageLoadIfUrlChanged(pagePresent, waitRejects, urlChanged) ==
    IF ~pagePresent
    THEN [attempted |-> FALSE, timedOut |-> FALSE, waited |-> FALSE]
    ELSE IF ~urlChanged
    THEN [attempted |-> TRUE, timedOut |-> TRUE, waited |-> TRUE]
    ELSE [attempted |-> TRUE, timedOut |-> waitRejects, waited |-> TRUE]

\* Raw values stagehand.act(step) can resolve to for step idx.
ActRaws(idx) ==
    {[kind |-> "null", success |-> TRUE, actions |-> <<>>],
     [kind |-> "string", success |-> TRUE, actions |-> <<>>],
     [kind |-> "object", success |-> FALSE, actions |-> <<>>],
     [kind |-> "object", success |-> TRUE, actions |-> <<>>]}
    \cup {[kind |-> k, success |-> TRUE, actions |-> CandidatesFor(idx)] :
             k \in {"array", "object"}}

\* normalizeActResult: the ActResultJson kept for the step, if any.
normalizeActResult(raw) ==
    IF raw.kind \in {"null", "string"} \/ raw.actions = <<>>
    THEN [hasAct |-> FALSE, actions |-> <<>>]
    ELSE [hasAct |-> TRUE, actions |-> raw.actions]

\* The merge rule of saveTestResults for one wait flag; "undef" = not a boolean.
MergeFlag(cur, prev) ==
    IF cur = "true" \/ prev = "true" THEN "true"
    ELSE IF cur # "undef" THEN cur ELSE prev

B2F(b) == IF b THEN "true" ELSE "false"

\* --------------------------------------------------- decisions of a step

\* stepCount of executeTestCase: the history's length when there is one.
StepCount(h, n) == IF Len(h) > 0 THEN Len(h) ELSE n

\* A variant that never finds recorded actions.
hasRecordedActions_never(h, idx) == FALSE

\* hasRecordedActions: historicalSteps?.[i]?.actions?.length is truthy.
hasRecordedActions(h, idx) == idx < Len(h) /\ Len(h[idx + 1].actions) > 0

\* A variant that skips the wait whenever the step has a history entry.
skipWaitWheneverHistory(h, idx) == idx < Len(h)

\* skipWaitForThisStep: !!stepHistory && stepHistory.pageLoadWaitTimedOut === true.
skipWaitForThisStep(h, idx) == idx < Len(h) /\ h[idx + 1].timedOut = "true"

\* A variant in which a list of actions is handed over without any driver
\* call.
DriverCalls_none(acts, n) == <<>>

\* The driver calls made for a list of actions of which the first n succeed:
\* the loop stops at the first action that throws.
DriverCalls(acts, n) == SubSeq(acts, 1, Min(n + 1, Len(acts)))

\* waitUntil of page.goto(url) called without options, and how strict each
\* waitUntil value is.
GotoWait == "load"
WaitRank(w) ==
    CASE w = "commit" -> 0
      [] w = "domcontentloaded" -> 1
      [] w = "load" -> 2
      [] w = "networkidle" -> 3

\* page.goto with one retry after a timeout (first: "ok" | "timeout" |
\* "error", retry: "ok" | "fail").
Navigate(first, retry) ==
    [ok |-> first = "ok" \/ (first = "timeout" /\ retry = "ok"),
     gotoCalls |-> IF first = "timeout" THEN 2 ELSE 1,
     waits |-> IF first = "timeout" THEN << GotoWait, GotoWait >>
               ELSE << GotoWait >>,
     err |-> IF first = "ok" THEN "none"
             ELSE IF first = "error" THEN "nav"
             ELSE IF retry = "ok" THEN "none" ELSE "navretry"]

\* Forms of testCase.url: absent, blank, not a URL even with https://
\* prefixed, a URL once https:// is prefixed, a URL.
UrlForms == {"absent", "blank", "invalid", "noproto", "valid"}

\* The navigation block of executeTestCase: no url, no navigation; a blank
\* or invalid url throws before any goto; otherwise goto with its retry.
navigateCase(url, first, retry) ==
    IF url = "absent"
    THEN [ok |-> TRUE, gotoCalls |-> 0, waits |-> <<>>, err |-> "none"]
    ELSE IF url \in {"blank", "invalid"}
    THEN [ok |-> FALSE, gotoCalls |-> 0, waits |-> <<>>, err |-> url]
    ELSE Navigate(first, retry)

\* executeTestCase up to the end of its navigation block, for a case with
\* the url, the first goto and the retry under observation.
RunNavigation ==
    /\ ~navRun.done
    /\ navRun' = [navRun EXCEPT
                     !.done = TRUE,
                     !.res = navigateCase(navRun.url, navRun.first,
                                          navRun.retry)]
    /\ UNCHANGED << assertRun, nonPlanVars >>

\* lastWrite when the latest write was not made by saveTestResults.
\* byRun = the latest write is saveTestResults merging an execution;
\* clean = an execution without history in which every step and the
\* expected result passed.
NoWrite == [byRun |-> FALSE, clean |-> FALSE]

NoCall == [path |-> "none", observeCalls |-> 0, actCalls |-> 0,
           driver |-> <<>>, wait |-> "none", outcome |-> "none"]

\* ---------------------------------------------------------------- state

\* The text field has no edit waiting for its debounce timer.
NoPending == [active |-> FALSE, deadline |-> 0, edits |-> 0, lastId |-> 0]

\* No recording session exists.
CaptureIdle ==
    /\ mode = "none"
    /\ now = 0
    /\ fieldValue = 0
    /\ pending = NoPending
    /\ pageQueue = <<>>
    /\ hostActions = <<>>
    /\ nextPoll = 0
    /\ captured = 0
    /\ dropped = {}
    /\ recPhase = "none"
    /\ trace = "none"
    /\ saved = <<>>

\* No single call is under observation.
UnitIdle ==
    /\ verdictRun = [stage |-> "none"]
    /\ authRun = [stage |-> "none"]
    /\ persistRun = [stage |-> "none"]
    /\ stopRun = [stage |-> "none"]
    /\ execRun = [stage |-> "none"]

\* No navigation on its own is under observation.
NoNavRun ==
    [done |-> FALSE, url |-> "absent", first |-> "ok", retry |-> "ok",
     res |-> [ok |-> TRUE, gotoCalls |-> 0, waits |-> <<>>, err |-> "none"]]

\* No call of runAssertionPlan on its own is under observation.
NoAssertRun ==
    [done |-> FALSE, plan |-> NoPlan, pageUrl |-> {}, found |-> {},
     res |-> [ok |-> FALSE, itemsRun |-> 0, log |-> {},
              err |-> [item |-> 0, kind |-> "none", value |-> {},
                       actual |-> {}]]]

\* The state of one case and its executor before anything has run.
InitCase ==
    /\ caseSteps = NSteps
    /\ expected \in {{}, {"dash"}}
    /\ storedSteps = <<>>
    /\ storedPlan = NoPlan
    /\ storedStatus = "none"
    /\ storedError = "none"
    /\ storedLog = <<>>
    /\ lastWrite = NoWrite
    /\ pc = "idle"
    /\ hist = <<>>
    /\ histPlan = NoPlan
    /\ pw \in BOOLEAN
    /\ i = 0
    /\ runSteps = <<>>
    /\ status = "pending"
    /\ error = "none"
    /\ resultPlan = NoPlan
    /\ resultLog = <<>>
    /\ logBuf = <<>>
    /\ call = NoCall
    /\ aiCalls = 0
    /\ verif = NoVerif
    /\ startedAfter = lastWrite

\* main has not entered the batch loop and no recorder process is running.
SchedIdle ==
    /\ nCases = 0
    /\ recordApi = FALSE
    /\ cfgMax = 0
    /\ mainPc = "idle"
    /\ batchFrom = 0
    /\ batches = <<>>
    /\ phase = <<>>
    /\ session = <<>>
    /\ outcome = <<>>
    /\ closeCalls = <<>>
    /\ thrown = <<>>
    /\ abortCause = "none"
    /\ file = {}
    /\ snap = <<>>
    /\ saveSnap = {}
    /\ recPc = "idle"
    /\ recSnap = {}

Init ==
    /\ InitCase
    /\ assertRun = NoAssertRun
    /\ navRun = NoNavRun
    /\ CaptureIdle
    /\ UnitIdle
    /\ SchedIdle

\* A variant whose finally block leaves result.log unset.
FailCase_noLog(err, lines) ==
    /\ status' = "failed"
    /\ error' = err
    /\ resultLog' = <<>>
    /\ logBuf' = <<>>
    /\ pc' = "finished"

\* The outer catch and the finally block of executeTestCase after a throw:
\* status failed, error set, result.log takes the whole buffer, buffer reset.
FailCase(err, lines) ==
    /\ status' = "failed"
    /\ error' = err
    /\ resultLog' = logBuf \o lines
    /\ logBuf' = <<>>
    /\ pc' = "finished"

\* main loads the data file, builds the executor and executeTestCase runs up
\* to the end of the navigation.
StartRun ==
    /\ pc = "idle"
    /\ UNCHANGED xvars
    /\ hist' = storedSteps
    /\ histPlan' = storedPlan
    /\ startedAfter' = lastWrite
    /\ pw' = pw
    /\ i' = 0
    /\ runSteps' = <<>>
    /\ resultPlan' = NoPlan
    /\ call' = NoCall
    /\ aiCalls' = 0
    /\ verif' = NoVerif
    /\ \E first \in {"ok", "timeout", "error"}, retry \in {"ok", "fail"} :
          IF Navigate(first, retry).ok
          THEN /\ status' = "pending"
               /\ error' = "none"
               /\ resultLog' = <<>>
               /\ logBuf' = <<"begin", "nav">>
               /\ pc' = IF StepCount(storedSteps, caseSteps) > 0
                        THEN "steps" ELSE "assert"
          ELSE FailCase("nav", <<"begin", "navfail", "casefail">>)
    /\ UNCHANGED storeVars

\* A variant of the tail of a loop iteration that does not await the settle
\* wait: the StepResult is pushed while the wait is pending.
PassStep_noAwait(act, c) ==
    /\ runSteps' = Append(runSteps,
           [hasAct |-> act.hasAct, actions |-> act.actions,
            attempted |-> "undef", timedOut |-> "undef"])
    /\ call' = [c EXCEPT !.wait = "pending", !.outcome = "passed"]
    /\ aiCalls' = aiCalls + c.observeCalls + c.actCalls
    /\ i' = i + 1
    /\ logBuf' = logBuf \o <<"step", "stepdone">>
    /\ pc' = IF i + 1 < StepCount(hist, caseSteps) THEN "steps" ELSE "assert"
    /\ UNCHANGED << status, error, resultPlan, resultLog, verif >>

\* The tail of a loop iteration whose actions succeeded: the settle wait
\* (unless history says skip), the flags, status passed, result.steps.push.
PassStep(act, c) ==
    /\ \E waitRejects \in BOOLEAN, urlChanged \in BOOLEAN :
          LET skip == skipWaitForThisStep(hist, i)
              w == IF skip
                   THEN [attempted |-> FALSE, timedOut |-> FALSE,
                         waited |-> FALSE]
                   ELSE waitForPageLoadIfUrlChanged(TRUE, waitRejects,
                                                    urlChanged)
              how == IF ~w.waited THEN "skipped"
                     ELSE IF waitRejects THEN "rejected" ELSE "settled"
          IN /\ runSteps' = Append(runSteps,
                    [hasAct |-> act.hasAct, actions |-> act.actions,
                     attempted |-> B2F(w.attempted),
                     timedOut |-> B2F(w.timedOut)])
             /\ call' = [c EXCEPT !.wait = how, !.outcome = "passed"]
    /\ aiCalls' = aiCalls + c.observeCalls + c.actCalls
    /\ i' = i + 1
    /\ logBuf' = logBuf \o <<"step", "stepdone">>
    /\ pc' = IF i + 1 < StepCount(hist, caseSteps) THEN "steps" ELSE "assert"
    /\ UNCHANGED << status, error, resultPlan, resultLog, verif >>

\* The inner catch of a loop iteration (rethrow), then the outer catch.
FailStep(c) ==
    /\ call' = [c EXCEPT !.outcome = "failed"]
    /\ aiCalls' = aiCalls + c.observeCalls + c.actCalls
    /\ FailCase("step", <<"step", "stepfail", "casefail">>)
    /\ UNCHANGED << i, runSteps, resultPlan, verif >>

\* REPLAY: the cached actions, one driver call each (Playwright locator, or
\* stagehand.act(action) when there is no Playwright page).
StepReplay ==
    /\ pc = "steps"
    /\ UNCHANGED xvars
    /\ hasRecordedActions(hist, i)
    /\ LET acts == hist[i + 1].actions IN
       \E n \in 0..Len(acts) :
          LET c == [NoCall EXCEPT !.path = "replay",
                                     !.driver = DriverCalls(acts, n)]
          IN IF n = Len(acts)
             THEN PassStep([hasAct |-> TRUE, actions |-> acts], c)
             ELSE FailStep(c)
    /\ UNCHANGED << hist, histPlan, pw, startedAfter >>
    /\ UNCHANGED storeVars

\* PLAN with a Playwright page: stagehand.observe for candidates; those
\* returned are executed by selector.
StepPlanObserved ==
    /\ pc = "steps"
    /\ UNCHANGED xvars
    /\ ~hasRecordedActions(hist, i)
    /\ pw
    /\ LET observed == CandidatesFor(i) IN
       \E n \in 0..Len(observed) :
          LET c == [NoCall EXCEPT !.path = "plan", !.observeCalls = 1,
                                     !.driver = DriverCalls(observed, n)]
          IN IF n = Len(observed)
             THEN PassStep([hasAct |-> TRUE, actions |-> observed], c)
             ELSE FailStep(c)
    /\ UNCHANGED << hist, histPlan, pw, startedAfter >>
    /\ UNCHANGED storeVars

\* PLAN ending in the opaque stagehand.act(step): after observe returned no
\* candidate, or at once when there is no Playwright page.
StepPlanOpaque ==
    /\ pc = "steps"
    /\ UNCHANGED xvars
    /\ ~hasRecordedActions(hist, i)
    /\ LET c == [NoCall EXCEPT !.path = "plan",
                                  !.observeCalls = IF pw THEN 1 ELSE 0,
                                  !.actCalls = 1]
       IN \/ \E raw \in ActRaws(i) :
                IF raw.kind = "object" /\ ~raw.success
                THEN FailStep(c)
                ELSE PassStep(normalizeActResult(raw), c)
          \/ FailStep(c)                          \* act(step) throws
    /\ UNCHANGED << hist, histPlan, pw, startedAfter >>
    /\ UNCHANGED storeVars

\* stagehand.observe throws while candidates are requested.
StepPlanObserveThrows ==
    /\ pc = "steps"
    /\ UNCHANGED xvars
    /\ ~hasRecordedActions(hist, i)
    /\ pw
    /\ FailStep([NoCall EXCEPT !.path = "plan", !.observeCalls = 1])
    /\ UNCHANGED << hist, histPlan, pw, startedAfter >>
    /\ UNCHANGED storeVars

\* ------------------------------------------------------------ assertion

\* URLs the page can be at when the expected result is verified.
PageUrls == {{"dash"}, {"other"}}

\* What llmClient.createChatCompletion can come back with, besides a plan
\* that passes AssertionPlanSchema: a throw, text that is not JSON, JSON of
\* another shape.
PlannerFailures ==
    {[shape |-> f, summary |-> {}, items |-> <<>>] :
        f \in {"throws", "notjson", "schemainvalid"}}

\* planAssertionsWithAI: without an llmClient the expected result itself is
\* the single observe item and no call is made.
planAssertionsWithAI(exp, llm, answer) ==
    IF ~llm
    THEN [ok |-> TRUE, calls |-> 0,
          plan |-> [shape |-> "ok", summary |-> {"nollm"},
                    items |-> << [kind |-> "obs", text |-> exp] >>]]
    ELSE [ok |-> answer.shape = "ok", calls |-> 1,
          plan |-> IF answer.shape = "ok" THEN answer ELSE NoPlan]

\* A variant that never reuses a persisted plan.
ReusesPlan_never(p) == FALSE

\* The reuse test of verifyExpectedResultWithAI:
\* existingPlan && existingPlan.assertions?.length.
ReusesPlan(p) == p.shape # "none" /\ Len(p.items) > 0

\* A variant that takes every {type:'url'} item as met.
ItemPasses_urlAlways(plan, k, pageUrl, found) ==
    IF plan.items[k].kind = "url" THEN TRUE ELSE k \in found

\* One item of runAssertionPlan: a {type:'url'} object is compared with
\* page.url(); anything else goes to stagehand.observe as a prompt.
ItemPasses(plan, k, pageUrl, found) ==
    IF plan.items[k].kind = "url"
    THEN plan.items[k].text \subseteq pageUrl
    ELSE k \in found

\* No item of the plan threw.
NoErr == [item |-> 0, kind |-> "none", value |-> {}, actual |-> {}]

\* runAssertionPlan: items in order, a throw at the first that fails.
runAssertionPlan(plan, pageUrl, found) ==
    LET n == Len(plan.items)
        bad == {k \in 1..n : ~ItemPasses(plan, k, pageUrl, found)}
        first == IF bad = {} THEN 0
                 ELSE CHOOSE k \in bad : \A m \in bad : k <= m
    IN [ok |-> first = 0,
        itemsRun |-> IF first = 0 THEN n ELSE first,
        log |-> plan.summary \cup UNION {plan.items[k].text : k \in 1..n},
        err |-> IF first = 0 THEN NoErr
                ELSE IF plan.items[first].kind = "url"
                THEN [item |-> first, kind |-> "url",
                      value |-> plan.items[first].text, actual |-> pageUrl]
                ELSE [item |-> first, kind |-> "notfound",
                      value |-> plan.items[first].text, actual |-> {}]]

\* Largest number of items of a plan handed to runAssertionPlan on its own.
MaxItems == 3

\* Items of those plans: URL fragments (one of them empty) and a prompt.
PlanItems ==
    {[kind |-> "url", text |-> {"dash"}], [kind |-> "url", text |-> {"other"}],
     [kind |-> "url", text |-> {}], [kind |-> "obs", text |-> {"btn"}]}

ItemSeqs == UNION {[1..n -> PlanItems] : n \in 1..MaxItems}

\* The caller of runAssertionPlan (verifyExpectedResultWithAI, step 2) with a
\* plan of valid shape, the URL of the page and the prompts observe matches.
RunPlan ==
    /\ ~assertRun.done
    /\ assertRun.plan.shape = "ok"
    /\ assertRun' = [assertRun EXCEPT
                        !.done = TRUE,
                        !.res = runAssertionPlan(assertRun.plan,
                                   assertRun.pageUrl, assertRun.found)]
    /\ UNCHANGED << navRun, nonPlanVars >>

\* A variant of the catch block that returns without the fallback observe.
FallbackCheck_none(exp) == [calls |-> 0, prompt |-> {}, log |-> {"shibai"}]

\* A variant of the catch block whose log is what was observed, without the
\* fixed words of a failure.
FallbackCheck_plainLog(exp) == [calls |-> 1, prompt |-> exp, log |-> exp]

\* The catch block of TestExecutor.verifyExpectedResult: one
\* stagehand.observe whose prompt carries the raw expected result; the log
\* handed back starts with the fixed words of a failure whether the observe
\* resolves or throws.
FallbackCheck(exp) == [calls |-> 1, prompt |-> exp, log |-> {"shibai"}]

\* verifyExpectedResultWithAI inside the try/catch of
\* TestExecutor.verifyExpectedResult: the log and the plan handed back.
verifyExpectedResult(exp, existingPlan, llm, answer, pageUrl, found) ==
    LET reuse == ReusesPlan(existingPlan)
        planned == IF reuse
                   THEN [ok |-> TRUE, calls |-> 0, plan |-> existingPlan]
                   ELSE planAssertionsWithAI(exp, llm, answer)
        ran == runAssertionPlan(planned.plan, pageUrl, found)
    IN IF planned.ok /\ ran.ok
       THEN [log |-> ran.log, plan |-> planned.plan, used |-> planned.plan,
             plannerCalls |-> planned.calls, itemsRun |-> ran.itemsRun,
             fallback |-> FALSE, fallbackCalls |-> 0, fallbackPrompt |-> {}]
       ELSE [log |-> FallbackCheck(exp).log, plan |-> NoPlan,
             used |-> IF planned.ok THEN planned.plan ELSE NoPlan,
             plannerCalls |-> planned.calls,
             itemsRun |-> IF planned.ok THEN ran.itemsRun ELSE 0,
             fallback |-> TRUE, fallbackCalls |-> FallbackCheck(exp).calls,
             fallbackPrompt |-> FallbackCheck(exp).prompt]

\* The verdict branch of executeTestCase (outside API-only mode) followed by
\* the finally block.
Verify ==
    /\ pc = "assert"
    /\ UNCHANGED xvars
    /\ IF expected = {}
       THEN /\ status' = "passed"
            /\ verif' = verif
            /\ resultPlan' = NoPlan
            /\ error' = error
            /\ resultLog' = <<>>
       ELSE \E llm \in BOOLEAN, answer \in PlannerPlans \cup PlannerFailures,
               pageUrl \in PageUrls, found \in SUBSET (1..2) :
              LET v == verifyExpectedResult(expected, histPlan, llm, answer,
                                            pageUrl, found)
                  matched == checkResultMatch(expected, v.log)
              IN /\ verif' = [ran |-> TRUE, used |-> v.used,
                              plannerCalls |-> v.plannerCalls,
                              itemsRun |-> v.itemsRun,
                              fallback |-> v.fallback,
                              fallbackCalls |-> v.fallbackCalls,
                              fallbackPrompt |-> v.fallbackPrompt,
                              verified |-> matched]
                 /\ status' = IF matched THEN "passed" ELSE "failed"
                 /\ resultPlan' = IF matched THEN v.plan ELSE NoPlan
                 /\ error' = IF matched THEN error ELSE "mismatch"
                 /\ resultLog' =
                      IF matched THEN <<>>
                      ELSE logBuf
                           \o (IF v.fallback THEN <<"verify", "warnfallback">>
                               ELSE <<"verify">>)
                           \o <<"mismatch">>
    /\ logBuf' = <<>>
    /\ pc' = "finished"
    /\ UNCHANGED << hist, histPlan, pw, i, runSteps, call, aiCalls,
                    startedAfter >>
    /\ UNCHANGED storeVars

\* ---------------------------------------------------------------- store

\* The map/filter of saveTestResults over r.steps: a step without actResult
\* is dropped; the others take the accumulated wait flags, the previous
\* entry being the one at the step's index in r.steps.
RECURSIVE MergeSteps(_, _, _)
MergeSteps(rs, prev, idx) ==
    IF idx > Len(rs) THEN <<>>
    ELSE LET s == rs[idx]
             pa == IF idx <= Len(prev) THEN prev[idx].attempted ELSE "undef"
             pt == IF idx <= Len(prev) THEN prev[idx].timedOut ELSE "undef"
             rest == MergeSteps(rs, prev, idx + 1)
         IN IF ~s.hasAct THEN rest
            ELSE << [actions |-> s.actions,
                     attempted |-> MergeFlag(s.attempted, pa),
                     timedOut |-> MergeFlag(s.timedOut, pt)] >> \o rest

\* The write of the flat-layout dataStore: the steps of this run, as they are.
StepsToWrite_unguarded(steps, prev) == steps

\* stepsToWrite: an empty list of this run never replaces a non-empty one.
StepsToWrite(steps, prev) ==
    IF Len(steps) > 0 THEN steps
    ELSE IF Len(prev) > 0 THEN prev ELSE steps

\* assertionPlan: r.assertionPlan || prevResult?.assertionPlan.
PlanToWrite(rp, prev) == IF rp.shape # "none" THEN rp ELSE prev

\* saveTestResults for the case, called by main after the executions.
Save ==
    /\ pc = "finished"
    /\ UNCHANGED xvars
    /\ storedSteps' = StepsToWrite(MergeSteps(runSteps, storedSteps, 1),
                                   storedSteps)
    /\ storedPlan' = PlanToWrite(resultPlan, storedPlan)
    /\ storedStatus' = status
    /\ storedError' = error
    /\ storedLog' = resultLog
    /\ lastWrite' = [byRun |-> TRUE,
                     clean |-> /\ hist = <<>>
                               /\ Len(runSteps) = caseSteps
                               /\ expected # {}
                               /\ status = "passed"]
    /\ pc' = "idle"
    /\ hist' = <<>>
    /\ histPlan' = NoPlan
    /\ i' = 0
    /\ runSteps' = <<>>
    /\ status' = "pending"
    /\ error' = "none"
    /\ resultPlan' = NoPlan
    /\ resultLog' = <<>>
    /\ logBuf' = <<>>
    /\ call' = NoCall
    /\ aiCalls' = 0
    /\ verif' = NoVerif
    /\ UNCHANGED << caseSteps, expected, pw, startedAfter >>

\* ------------------------------------------------------------- recorder

\* Lists of recorded actions a session hands over (actionsForAct, non-empty).
RecLists == {[k \in 1..n |-> [s |-> -1, k |-> k]] : n \in 1..MaxRec}

\* writeRecordedStepsToDataFile: one persisted step per recorded action with
\* that action's own wait flags; status passed; plan, trace path and log
\* fall back to the previous result's; the step texts become the actions'.
writeRecordedSteps(acts, waits, plan) ==
    /\ storedSteps' = [k \in 1..Len(acts) |->
                          [actions |-> << acts[k] >>,
                           attempted |-> waits[k].attempted,
                           timedOut |-> waits[k].timedOut]]
    /\ storedPlan' = PlanToWrite(plan, storedPlan)
    /\ storedStatus' = "passed"
    /\ storedError' = "none"
    /\ storedLog' = storedLog
    /\ caseSteps' = Len(acts)
    /\ lastWrite' = NoWrite

\* Wait flags the recorder's replay can note for one action: the result of
\* waitForPageLoadIfUrlChanged, or (true, true) when the wait threw.
RecWaits ==
    {[attempted |-> B2F(w.attempted), timedOut |-> B2F(w.timedOut)] :
        w \in {waitForPageLoadIfUrlChanged(TRUE, r, c) :
                  r \in BOOLEAN, c \in BOOLEAN}}

\* A variant that does not look at the outcome of the replay.
RecorderVerdict_replayIgnored(exp, replayOk, llm, answer, pageUrl, found) ==
    LET planned == planAssertionsWithAI(exp, llm, answer)
        ran == runAssertionPlan(planned.plan, pageUrl, found)
        good == planned.ok /\ ran.ok /\ checkResultMatch(exp, ran.log)
    IN [write |-> good, plan |-> IF good THEN planned.plan ELSE NoPlan]

\* The replay and the assertion of verifyAndPersistRecordedActions, which
\* never reuses a plan: whether the actions may be written, and the plan.
\* A replay that fails, a planner failure and a failing item all throw.
RecorderVerdict(exp, replayOk, llm, answer, pageUrl, found) ==
    LET planned == planAssertionsWithAI(exp, llm, answer)
        ran == runAssertionPlan(planned.plan, pageUrl, found)
        good == /\ replayOk
                /\ planned.ok
                /\ ran.ok
                /\ checkResultMatch(exp, ran.log)
    IN [write |-> good, plan |-> IF good THEN planned.plan ELSE NoPlan]

\* Every verdict the replay and the assertion can come to.
RecorderVerdicts(exp) ==
    {RecorderVerdict(exp, replayOk, llm, answer, pageUrl, found) :
        replayOk \in BOOLEAN, llm \in BOOLEAN,
        answer \in PlannerPlans \cup PlannerFailures,
        pageUrl \in PageUrls, found \in SUBSET (1..2)}

\* verifyAndPersistRecordedActions at the end of a recording session bound
\* to this case: without an expected result the actions are written at
\* once; otherwise they are replayed and written only if the expected
\* result verifies.
RecorderPersist ==
    /\ pc = "idle"
    /\ UNCHANGED xvars
    /\ IF expected = {}
       THEN \E acts \in RecLists :
               writeRecordedSteps(acts,
                  [k \in 1..Len(acts) |->
                      [attempted |-> "false", timedOut |-> "false"]],
                  NoPlan)
       ELSE \E v \in RecorderVerdicts(expected) :
               IF v.write
               THEN \E acts \in RecLists :
                       \E waits \in [1..Len(acts) -> RecWaits] :
                          writeRecordedSteps(acts, waits, v.plan)
               ELSE UNCHANGED storeVars
    /\ expected' = expected
    /\ UNCHANGED runVars

\* The data file is a JSON document other writers reach too: an earlier
\* release of the tool stored plans whose items are typed objects
\* ({type:'text_visible', ...}); a hand edit can empty the assertions.
DataFilePlanReplaced ==
    /\ pc = "idle"
    /\ UNCHANGED xvars
    /\ storedPlan.shape = "ok"
    /\ \E p \in {PlanNoItems, PlanBadItem} : storedPlan' = p
    /\ lastWrite' = NoWrite
    /\ UNCHANGED << caseSteps, expected, storedSteps, storedStatus,
                    storedError, storedLog >>
    /\ UNCHANGED runVars

Next ==
    \/ StartRun
    \/ StepReplay
    \/ StepPlanObserved
    \/ StepPlanOpaque
    \/ StepPlanObserveThrows
    \/ Verify
    \/ Save
    \/ RecorderPersist
    \/ DataFilePlanReplaced

Spec == Init /\ [][Next]_vars

\* runAssertionPlan on every plan of up to MaxItems items, every page URL and
\* every set of prompts that observe finds a match for.
InitPlan ==
    /\ InitCase /\ expected = {"dash"} /\ pw
    /\ SchedIdle
    /\ CaptureIdle
    /\ UnitIdle
    /\ navRun = NoNavRun
    /\ \E its \in ItemSeqs, u \in PageUrls :
          \E f \in SUBSET {k \in 1..Len(its) : its[k].kind = "obs"} :
             assertRun = [NoAssertRun EXCEPT
                             !.plan = [shape |-> "ok", summary |-> {"sum"},
                                       items |-> its],
                             !.pageUrl = u, !.found = f]

NextPlan == RunPlan

\* The navigation block on every form of url, every outcome of the first
\* goto and of its retry, with and without a Playwright page.
InitNav ==
    /\ InitCase /\ expected = {"dash"}
    /\ SchedIdle
    /\ CaptureIdle
    /\ UnitIdle
    /\ assertRun = NoAssertRun
    /\ \E u \in UrlForms, f \in {"ok", "timeout", "error"},
          r \in {"ok", "fail"} :
          navRun = [NoNavRun EXCEPT !.url = u, !.first = f, !.retry = r]

NextNav == RunNavigation

SpecNav == InitNav /\ [][NextNav]_<< vars, xvars >>

SpecPlan == InitPlan /\ [][NextPlan]_<< vars, xvars >>

\* ------------------------------------------------ index.ts main: batches

\* Largest number of test cases of the data file.
MaxCases == 5
\* Largest value given to --max-concurrency.
MaxCfg == 2
\* The cap used when --max-concurrency is absent or not positive.
DefaultConcurrency == 5

\* A variant that takes the configured cap also when API recording is on.
rawMaxConcurrency_ignoresRecordApi(rec, cfg) ==
    IF cfg > 0 THEN cfg ELSE DefaultConcurrency

\* rawMaxConcurrency of main: 1 with --record-api, else the configured cap
\* when it is a positive number, else the default.
rawMaxConcurrency(rec, cfg) ==
    IF rec THEN 1 ELSE IF cfg > 0 THEN cfg ELSE DefaultConcurrency

\* maxConcurrency of main.
maxConcurrency(rec, cfg, m) == Min(rawMaxConcurrency(rec, cfg), m)

\* testCases.slice(from, from + n), as 1-based case numbers.
BatchMembers(from, n, m) == (from + 1)..Min(from + n, m)

\* Facts the data file can hold: what earlier runs accumulated, apiRecords
\* of a case, the result of a case, the steps the recorder captured.
OldFact == [k |-> "old", c |-> 0]
ApiFact(c) == [k |-> "api", c |-> c]
ResFact(c) == [k |-> "res", c |-> c]
RecFact == [k |-> "rec", c |-> 0]

\* main enters the batch loop with at least one case.
InitSched ==
    /\ InitCase /\ expected = {"dash"} /\ pw
    /\ assertRun = NoAssertRun
    /\ CaptureIdle
    /\ UnitIdle
    /\ navRun = NoNavRun
    /\ nCases \in 1..MaxCases
    /\ recordApi \in BOOLEAN
    /\ cfgMax \in 0..MaxCfg
    /\ mainPc = "batch"
    /\ batchFrom = 0
    /\ batches = <<>>
    /\ phase = [c \in 1..nCases |-> "pending"]
    /\ session = [c \in 1..nCases |-> FALSE]
    /\ outcome = [c \in 1..nCases |-> "none"]
    /\ closeCalls = [c \in 1..nCases |-> 0]
    /\ thrown = [c \in 1..nCases |-> "none"]
    /\ abortCause = "none"
    /\ file = {OldFact}
    /\ snap = [c \in 1..nCases |-> {}]
    /\ saveSnap = {}
    /\ recPc = "idle"
    /\ recSnap = {}

\* One iteration of the batch loop up to the await: the slice is taken and
\* batch.map starts the callback of every case of it.
BatchStart ==
    /\ mainPc = "batch"
    /\ batchFrom < nCases
    /\ LET members == BatchMembers(batchFrom,
                         maxConcurrency(recordApi, cfgMax, nCases), nCases)
       IN /\ phase' = [c \in 1..nCases |->
                          IF c \in members THEN "run" ELSE phase[c]]
          /\ batches' = Append(batches, Cardinality(members))
    /\ mainPc' = "await"
    /\ UNCHANGED << nonSchedVars, nCases, recordApi, cfgMax, batchFrom,
                    session, outcome, closeCalls, thrown, abortCause, file,
                    snap, saveSnap, recPc, recSnap >>

\* The catch block of the callback and what follows: executor.close() is
\* called again, the error is rethrown, Promise.all rejects, the outer catch
\* of main logs and calls process.exit(1).
TaskRejects(c, cause, made, callsBefore) ==
    /\ session' = [session EXCEPT ![c] = made]
    /\ closeCalls' = [closeCalls EXCEPT
                         ![c] = callsBefore + (IF made THEN 1 ELSE 0)]
    /\ thrown' = [thrown EXCEPT ![c] = cause]
    /\ phase' = [phase EXCEPT ![c] = "rejected"]
    /\ abortCause' = cause
    /\ mainPc' = "exited"

\* executeAll throws: init() fails before the Stagehand session is built
\* (keys, browser install) or after it (stagehand.init, the interceptor).
TaskInitThrows(c) ==
    /\ mainPc = "await"
    /\ phase[c] = "run"
    /\ \E made \in BOOLEAN : TaskRejects(c, "init", made, 0)
    /\ UNCHANGED << nonSchedVars, nCases, recordApi, cfgMax, batchFrom,
                    batches, outcome, file, snap, saveSnap, recPc, recSnap >>

\* executeAll resolves: the session was built and executeTestCase returned
\* a result, passed or failed; with --record-api and matching traffic the
\* callback goes on to saveApiRecords, else to executor.close().
TaskExecuted(c) ==
    /\ mainPc = "await"
    /\ phase[c] = "run"
    /\ session' = [session EXCEPT ![c] = TRUE]
    /\ \E o \in {"passed", "failed"} : outcome' = [outcome EXCEPT ![c] = o]
    /\ \E traffic \in BOOLEAN :
          phase' = [phase EXCEPT
                       ![c] = IF recordApi /\ traffic THEN "apiLoad"
                              ELSE "close"]
    /\ UNCHANGED << nonSchedVars, nCases, recordApi, cfgMax, mainPc,
                    batchFrom, batches, closeCalls, thrown, abortCause, file,
                    snap, saveSnap, recPc, recSnap >>

\* saveApiRecords, first half: the data file is loaded.
ApiLoad(c) ==
    /\ mainPc = "await"
    /\ phase[c] = "apiLoad"
    /\ snap' = [snap EXCEPT ![c] = file]
    /\ phase' = [phase EXCEPT ![c] = "apiWrite"]
    /\ UNCHANGED << nonSchedVars, nCases, recordApi, cfgMax, mainPc,
                    batchFrom, batches, session, outcome, closeCalls, thrown,
                    abortCause, file, saveSnap, recPc, recSnap >>

\* saveApiRecords, second half: apiRecords of the case are set in the loaded
\* document and the document is written.
ApiWrite(c) ==
    /\ mainPc = "await"
    /\ phase[c] = "apiWrite"
    /\ file' = snap[c] \cup {ApiFact(c)}
    /\ phase' = [phase EXCEPT ![c] = "close"]
    /\ UNCHANGED << nonSchedVars, nCases, recordApi, cfgMax, mainPc,
                    batchFrom, batches, session, outcome, closeCalls, thrown,
                    abortCause, snap, saveSnap, recPc, recSnap >>

\* saveApiRecords throws (the file cannot be read, parsed or written).
ApiSaveThrows(c) ==
    /\ mainPc = "await"
    /\ phase[c] \in {"apiLoad", "apiWrite"}
    /\ TaskRejects(c, "apiSave", TRUE, 0)
    /\ UNCHANGED << nonSchedVars, nCases, recordApi, cfgMax, batchFrom,
                    batches, outcome, file, snap, saveSnap, recPc, recSnap >>

\* executor.close() at the end of the try block resolves.
TaskClose(c) ==
    /\ mainPc = "await"
    /\ phase[c] = "close"
    /\ closeCalls' = [closeCalls EXCEPT ![c] = closeCalls[c] + 1]
    /\ phase' = [phase EXCEPT ![c] = "done"]
    /\ UNCHANGED << nonSchedVars, nCases, recordApi, cfgMax, mainPc,
                    batchFrom, batches, session, outcome, thrown, abortCause,
                    file, snap, saveSnap, recPc, recSnap >>

\* executor.close() at the end of the try block rejects in
\* stagehand.close(): the catch block calls executor.close() once more.
TaskCloseThrows(c) ==
    /\ mainPc = "await"
    /\ phase[c] = "close"
    /\ TaskRejects(c, "close", TRUE, 1)
    /\ UNCHANGED << nonSchedVars, nCases, recordApi, cfgMax, batchFrom,
                    batches, outcome, file, snap, saveSnap, recPc, recSnap >>

\* Promise.all resolves: every callback of the batch returned; the results
\* are pushed and the loop variable advances.
BatchEnd ==
    /\ mainPc = "await"
    /\ LET n == maxConcurrency(recordApi, cfgMax, nCases)
       IN /\ \A c \in BatchMembers(batchFrom, n, nCases) : phase[c] = "done"
          /\ batchFrom' = batchFrom + n
          /\ mainPc' = IF batchFrom + n < nCases THEN "batch" ELSE "save"
    /\ UNCHANGED << nonSchedVars, nCases, recordApi, cfgMax, batches, phase,
                    session, outcome, closeCalls, thrown, abortCause, file,
                    snap, saveSnap, recPc, recSnap >>

\* saveTestResults, first half: the data file is loaded.
SaveLoad ==
    /\ mainPc = "save"
    /\ saveSnap' = file
    /\ mainPc' = "saveWrite"
    /\ UNCHANGED << nonSchedVars, nCases, recordApi, cfgMax, batchFrom,
                    batches, phase, session, outcome, closeCalls, thrown,
                    abortCause, file, snap, recPc, recSnap >>

\* saveTestResults, second half: the result of every case of the run is set
\* in the loaded document and the document is written.
SaveWrite ==
    /\ mainPc = "saveWrite"
    /\ file' = saveSnap \cup {ResFact(c) : c \in 1..nCases}
    /\ mainPc' = "done"
    /\ UNCHANGED << nonSchedVars, nCases, recordApi, cfgMax, batchFrom,
                    batches, phase, session, outcome, closeCalls, thrown,
                    abortCause, snap, saveSnap, recPc, recSnap >>

\* saveTestResults throws: the outer catch logs and calls process.exit(1).
SaveThrows ==
    /\ mainPc \in {"save", "saveWrite"}
    /\ abortCause' = "saveResults"
    /\ mainPc' = "exited"
    /\ UNCHANGED << nonSchedVars, nCases, recordApi, cfgMax, batchFrom,
                    batches, phase, session, outcome, closeCalls, thrown,
                    file, snap, saveSnap, recPc, recSnap >>

\* A recorder process on the same data file, started while the first batch
\* runs: verifyAndPersistRecordedActions loads the document before its replay.
RecLoad ==
    /\ recPc = "idle"
    /\ mainPc = "await"
    /\ batchFrom = 0
    /\ recSnap' = file
    /\ recPc' = "loaded"
    /\ UNCHANGED << nonSchedVars, nCases, recordApi, cfgMax, mainPc,
                    batchFrom, batches, phase, session, outcome, closeCalls,
                    thrown, abortCause, file, snap, saveSnap >>

\* writeRecordedStepsToDataFile: the document loaded before the replay gets
\* the recorded steps and is written.
RecWrite ==
    /\ recPc = "loaded"
    /\ file' = recSnap \cup {RecFact}
    /\ recPc' = "written"
    /\ UNCHANGED << nonSchedVars, nCases, recordApi, cfgMax, mainPc,
                    batchFrom, batches, phase, session, outcome, closeCalls,
                    thrown, abortCause, snap, saveSnap, recSnap >>

NextSched ==
    \/ BatchStart
    \/ \E c \in 1..nCases : TaskInitThrows(c)
    \/ \E c \in 1..nCases : TaskExecuted(c)
    \/ \E c \in 1..nCases : ApiLoad(c)
    \/ \E c \in 1..nCases : ApiWrite(c)
    \/ \E c \in 1..nCases : ApiSaveThrows(c)
    \/ \E c \in 1..nCases : TaskClose(c)
    \/ \E c \in 1..nCases : TaskCloseThrows(c)
    \/ BatchEnd
    \/ SaveLoad
    \/ SaveWrite
    \/ SaveThrows
    \/ RecLoad
    \/ RecWrite

SpecSched == InitSched /\ [][NextSched]_<< vars, xvars >>

\* ----------------------------------------------------------- properties

Last(seq) == seq[Len(seq)]

\* A step of the execution has just passed and its StepResult is the last
\* of result.steps.
StepJustPassed ==
    pc \in {"steps", "assert", "finished"} /\ call.outcome = "passed"

\* C1: once the persisted pageLoadWaitTimedOut of step k is true after a
\* merge by saveTestResults, it is still true at index k after every later
\* write of the case's result (by saveTestResults or by the recorder).
C1_TimedOutStaysTrue ==
    [][\A k \in 1..Len(storedSteps) :
          (lastWrite.byRun /\ storedSteps[k].timedOut = "true")
             => /\ k <= Len(storedSteps')
                /\ storedSteps'[k].timedOut = "true"]_vars

\* C2: when the settle wait of a step is performed, the step records
\* attempted = true, and timedOut = true exactly when the wait itself timed
\* out; a wait that completed records timedOut = false, also when the URL
\* did not change.
C2_WaitOutcomeRecorded ==
    (StepJustPassed /\ call.wait \in {"rejected", "settled"})
       => /\ Last(runSteps).attempted = "true"
          /\ (Last(runSteps).timedOut = "true") <=> (call.wait = "rejected")

\* C3: the wait of step k is skipped, recording attempted = false and
\* timedOut = false, exactly when history entry k has timedOut = true;
\* every other step waits (attempted = true), whatever its neighbours do.
C3_SkipIffHistoryTimedOut ==
    /\ \A k \in 1..Len(runSteps) :
          IF k <= Len(hist) /\ hist[k].timedOut = "true"
          THEN runSteps[k].attempted = "false" /\ runSteps[k].timedOut = "false"
          ELSE runSteps[k].attempted = "true"
    /\ StepJustPassed
          => (call.wait = "skipped")
                <=> (i <= Len(hist) /\ hist[i].timedOut = "true")

\* C3 happens: history flagged at index 1 only; step 1 skipped its wait,
\* steps 0 and 2 waited.
C3_Witness ==
    /\ Len(hist) = 3 /\ Len(runSteps) = 3
    /\ hist[1].timedOut = "false" /\ hist[2].timedOut = "true"
    /\ hist[3].timedOut = "false"
    /\ runSteps[1].attempted = "true" /\ runSteps[2].attempted = "false"
    /\ runSteps[2].timedOut = "false" /\ runSteps[3].attempted = "true"
    /\ call.wait # "skipped"

\* C4: saveTestResults merging an execution with zero StepResults leaves
\* the N steps persisted before it unchanged.
C4_EmptyRunKeepsSteps ==
    [][(pc = "finished" /\ runSteps = <<>>)
          => storedSteps' = storedSteps]_vars

\* C4 happens: an execution that failed at the navigation, with no step, has
\* been merged into a document that holds steps.
C4_Witness ==
    /\ pc = "idle" /\ lastWrite.byRun
    /\ storedError = "nav"
    /\ Len(storedSteps) = 2

\* C5: when step k fails no later step is executed, the case is failed, and
\* the error and the log accumulated up to the failure are on the result
\* and are what saveTestResults persists.
C5_StepFailureStopsCase ==
    [][/\ (pc = "steps" /\ call'.outcome = "failed")
          => /\ pc' = "finished"
             /\ status' = "failed"
             /\ error' = "step"
             /\ i' = i /\ runSteps' = runSteps
             /\ resultLog' = logBuf \o <<"step", "stepfail", "casefail">>
       /\ (pc = "finished" /\ call.outcome = "failed")
          => /\ pc' = "idle"
             /\ storedStatus' = "failed"
             /\ storedError' = error
             /\ storedLog' = resultLog]_vars

\* C5 happens: step 1 failed after step 0 passed and the result has been
\* persisted with the log of both.
C5_Witness ==
    /\ pc = "idle" /\ lastWrite.byRun
    /\ storedStatus = "failed" /\ storedError = "step"
    /\ storedLog = <<"begin", "nav", "step", "stepdone",
                     "step", "stepfail", "casefail">>

\* The index of the step attempted last, and its history entry's actions.
LastIdx == IF call.outcome = "passed" THEN i - 1 ELSE i
CachedActions ==
    IF LastIdx < Len(hist) THEN hist[LastIdx + 1].actions ELSE <<>>
StepAttempted ==
    pc \in {"steps", "assert", "finished"} /\ call.outcome # "none"

\* C6: a step with cached actions takes REPLAY: exactly those actions are
\* executed by selector, in order up to the first that fails, and no AI
\* observe or act call is made for the step; a step without cached actions
\* takes PLAN.
C6_ReplayIffCached ==
    StepAttempted
       => IF CachedActions # <<>>
          THEN /\ call.path = "replay"
               /\ call.observeCalls = 0 /\ call.actCalls = 0
               /\ call.driver # <<>>
               /\ call.driver = SubSeq(CachedActions, 1, Len(call.driver))
               /\ call.outcome = "passed" => call.driver = CachedActions
          ELSE call.path = "plan"

\* C6 happens: a step with two cached actions has been replayed.
C6_Witness ==
    /\ StepAttempted /\ call.outcome = "passed"
    /\ Len(CachedActions) = 2
    /\ call.driver = CachedActions
    /\ aiCalls = 0

\* What C7 says of a PLAN step that asked for candidates.
PlanWithCandidates ==
    /\ call.observeCalls = 1
    /\ call.actCalls <= 1
    /\ call.driver # <<>> => call.actCalls = 0
    /\ call.outcome = "passed"
          => \/ call.driver = CandidatesFor(LastIdx) /\ call.actCalls = 0
             \/ call.driver = <<>> /\ call.actCalls = 1

\* C7 as stated: every PLAN step asks the planner for candidates; those
\* returned are executed by selector; with none there is one opaque
\* natural-language act call.
C7_PlanAsksCandidates ==
    (StepAttempted /\ call.path = "plan") => PlanWithCandidates

\* C7 amended: that holds when the executor has a Playwright page; without
\* one the PLAN step asks for no candidates and makes the one opaque call.
C7_PlanAsksCandidatesWithPage ==
    (StepAttempted /\ call.path = "plan")
       => IF pw THEN PlanWithCandidates
          ELSE /\ call.observeCalls = 0
               /\ call.actCalls = 1
               /\ call.driver = <<>>

\* C7 happens: candidates were asked for, none came back, the opaque call
\* passed the step.
C7_Witness ==
    /\ StepAttempted /\ call.path = "plan" /\ call.outcome = "passed"
    /\ pw /\ call.observeCalls = 1 /\ call.actCalls = 1

\* What C8 says of the second execution.
ReplaysAll ==
    /\ StepAttempted
          => /\ call.path = "replay"
             /\ CachedActions = CandidatesFor(LastIdx)
    /\ aiCalls = 0
    /\ pc = "assert" => i = caseSteps
    /\ verif.ran => /\ verif.plannerCalls = 0
                    /\ verif.used = storedPlan
                    /\ storedPlan.shape = "ok"

\* C8 as stated: the execution that follows a first execution without
\* history in which every step and the expected result passed replays every
\* step of the case with the actions planned for it, makes no AI call for
\* the steps and no planner call, and reuses the plan the first one
\* persisted.
C8_SecondRunReplaysAll == startedAfter.clean => ReplaysAll

\* C8 amended: that holds when the first execution left a full history, one
\* persisted entry per step (every act result carried actions).
C8_SecondRunReplaysAllFullHistory ==
    (startedAfter.clean /\ Len(hist) = caseSteps) => ReplaysAll

\* C8 happens: the second execution replayed every step and its expected
\* result verified with the persisted plan.
C8_Witness ==
    /\ startedAfter.clean /\ Len(hist) = caseSteps
    /\ pc = "finished" /\ i = caseSteps
    /\ call.path = "replay" /\ call.outcome = "passed"
    /\ verif.ran /\ verif.verified /\ verif.used = storedPlan

\* C9: a plan is cached exactly when it verified: the write that follows an
\* execution whose assertion failed leaves no plan cached, the one that
\* follows a verified plan caches that plan.
C9_PlanCachedIffVerified ==
    [][(pc = "finished" /\ verif.ran)
          => IF verif.verified THEN storedPlan' = verif.used
             ELSE storedPlan' = NoPlan]_vars

\* C10: a persisted plan that is no longer structurally valid is never
\* executed: the assertion runs another plan, or none.
C10_InvalidPlanNotExecuted ==
    (verif.ran /\ histPlan.shape \in {"noitems", "baditem"})
       => verif.used # histPlan

\* C11: when a valid cached plan exists for the case, the verification runs
\* that plan and makes no planner call.
C11_ValidCachedPlanReused ==
    (verif.ran /\ histPlan.shape = "ok")
       => /\ verif.used = histPlan
          /\ verif.plannerCalls = 0

\* C11 happens: a cached plan has been reused and verified.
C11_Witness ==
    /\ verif.ran /\ histPlan.shape = "ok"
    /\ verif.used = histPlan /\ verif.verified
    /\ verif.itemsRun = 2

\* The planner was called and its answer was no plan (a throw, text that is
\* not JSON, JSON failing the schema).
PlannerFailed ==
    verif.ran /\ verif.plannerCalls = 1 /\ verif.used = NoPlan

\* C13: when the planner's output is malformed, the verifier makes a single
\* fallback observe whose prompt carries the raw expected result, the
\* failure is in the log, and the case reaches a verdict through the verdict
\* branch, not through the catch of an exception.
C13_MalformedPlanFallsBack ==
    PlannerFailed
       => /\ verif.fallback
          /\ verif.fallbackCalls = 1
          /\ verif.fallbackPrompt = expected
          /\ verif.itemsRun = 0
          /\ pc = "finished"
          /\ status \in {"passed", "failed"}
          /\ error \in {"none", "mismatch"}
          /\ status = "failed"
                => \E k \in 1..Len(resultLog) : resultLog[k] = "warnfallback"

\* C13 happens: the planner failed and the case got its verdict.
C13_Witness ==
    /\ PlannerFailed /\ verif.fallbackCalls = 1
    /\ pc = "finished" /\ error = "mismatch"
    /\ Len(runSteps) = caseSteps

\* C20: step i+1 is started only when step i has resolved: the loop index
\* moves by one, and only with the step's actions done and its settle wait
\* finished or skipped; a failed step ends the loop; every StepResult before
\* the index carries the outcome of its wait.
C20_StepsInOrder ==
    [][/\ (pc = "steps" /\ i' # i)
          => /\ i' = i + 1
             /\ call'.outcome = "passed"
             /\ call'.wait \in {"skipped", "rejected", "settled"}
             /\ Len(runSteps') = i'
             /\ Last(runSteps').attempted \in {"true", "false"}
       /\ (pc = "steps" /\ i' = i)
          => /\ call'.outcome = "failed"
             /\ pc' = "finished"
             /\ runSteps' = runSteps]_vars

\* C20 happens: the second step has been started after the first resolved
\* with its wait settled.
C20_Witness ==
    /\ pc = "assert" /\ i = 2 /\ Len(runSteps) = 2
    /\ call.wait = "settled"
    /\ runSteps[1].attempted = "true"

\* ------------------------------------------- recorder: capture and stop

\* Largest number of interactions of a session and the end of its clock.
MaxEvents == 2
MaxTime == 900
\* Debounce of the input handler, poll interval of the host, window of the
\* duplicate test of recordAction, in ms.
INPUT_DEBOUNCE_MS == 600
PollIntervalMs == 300
DuplicateWindowMs == 500

\* Targets of click events: an element, and a target that is no element.
ClickTargets == {"a", "doc"}

\* getSelector: 'xpath=...' for an element, '' otherwise.
getSelector(target) == IF target = "doc" THEN "" ELSE target

\* The entry clickHandler pushes.
ClickAction(target, id, ts) ==
    [id |-> id, type |-> "click", desc |-> << target >>, ts |-> ts,
     selector |-> getSelector(target), edits |-> 0, value |-> 0,
     cause |-> "click", lastEdit |-> ts]

\* The entry the debounce timer or flushInputPending pushes: the value is
\* read from the element at that moment.
TypeAction(ts, cause) ==
    [id |-> pending.lastId, type |-> "type", desc |-> << "field", fieldValue >>,
     ts |-> ts, selector |-> getSelector("field"), edits |-> pending.edits,
     value |-> fieldValue, cause |-> cause,
     lastEdit |-> pending.deadline - INPUT_DEBOUNCE_MS]

\* recordAction: an action equal in type and description to the last one
\* recorded is left out when the host clock is within the window of that
\* last action's timestamp.
recordAction(acts, a, t) ==
    IF /\ Len(acts) > 0
       /\ a.type = acts[Len(acts)].type
       /\ a.desc = acts[Len(acts)].desc
       /\ t - acts[Len(acts)].ts < DuplicateWindowMs
    THEN acts
    ELSE Append(acts, a)

RECURSIVE RecordAll(_, _, _)
\* actions.forEach(action => this.recordAction(action)) of a poll.
RecordAll(acts, batch, t) ==
    IF batch = <<>> THEN acts
    ELSE RecordAll(recordAction(acts, Head(batch), t), Tail(batch), t)

RECURSIVE KeepWithSelector(_)
KeepWithSelector(acts) ==
    IF acts = <<>> THEN <<>>
    ELSE IF acts[1].selector # ""
         THEN << acts[1] >> \o KeepWithSelector(Tail(acts))
         ELSE KeepWithSelector(Tail(acts))

\* A variant of getActionsForAct without the filter.
getActionsForAct_unfiltered(acts) == acts

\* getActionsForAct: the recorded actions that have a selector.
getActionsForAct(acts) == KeepWithSelector(acts)

Ids(acts) == {acts[k].id : k \in 1..Len(acts)}

\* A recording session right after start(), or an execution of main with a
\* trace open.
InitCap ==
    /\ InitCase /\ expected = {"dash"} /\ pw
    /\ assertRun = NoAssertRun
    /\ navRun = NoNavRun
    /\ SchedIdle
    /\ UnitIdle
    /\ mode \in {"record", "run"}
    /\ now = 0
    /\ fieldValue = 0
    /\ pending = NoPending
    /\ pageQueue = <<>>
    /\ hostActions = <<>>
    /\ nextPoll = PollIntervalMs
    /\ captured = 0
    /\ dropped = {}
    /\ recPhase = "recording"
    /\ trace = "open"
    /\ saved = <<>>

Recording == mode = "record" /\ recPhase = "recording"

\* Time passes while the session records, in steps of 100 ms, up to the next
\* timer of the page or of the host.
Tick ==
    /\ Recording
    /\ now + 100 <= MaxTime
    /\ pending.active => now < pending.deadline
    /\ now < nextPoll
    /\ now' = now + 100
    /\ UNCHANGED << nonCapVars, mode, fieldValue, pending, pageQueue,
                    hostActions, nextPoll, captured, dropped, recPhase,
                    trace, saved >>

\* clickHandler.
Click(target) ==
    /\ Recording
    /\ captured < MaxEvents
    /\ captured' = captured + 1
    /\ pageQueue' = Append(pageQueue, ClickAction(target, captured + 1, now))
    /\ UNCHANGED << nonCapVars, mode, now, fieldValue, pending, hostActions,
                    nextPoll, dropped, recPhase, trace, saved >>

\* inputHandler: the timer of the field is restarted, nothing is pushed.
Edit ==
    /\ Recording
    /\ captured < MaxEvents
    /\ captured' = captured + 1
    /\ fieldValue' = fieldValue + 1
    /\ pending' = [active |-> TRUE, deadline |-> now + INPUT_DEBOUNCE_MS,
                   edits |-> pending.edits + 1, lastId |-> captured + 1]
    /\ UNCHANGED << nonCapVars, mode, now, pageQueue, hostActions, nextPoll,
                    dropped, recPhase, trace, saved >>

\* blurHandler: a pending edit of the field is flushed.
Blur ==
    /\ Recording
    /\ pending.active
    /\ pageQueue' = Append(pageQueue, TypeAction(now, "blur"))
    /\ pending' = NoPending
    /\ UNCHANGED << nonCapVars, mode, now, fieldValue, hostActions, nextPoll,
                    captured, dropped, recPhase, trace, saved >>

\* The debounce timer of the field fires.
DebounceFires ==
    /\ Recording
    /\ pending.active
    /\ now = pending.deadline
    /\ pageQueue' = Append(pageQueue, TypeAction(now, "timer"))
    /\ pending' = NoPending
    /\ UNCHANGED << nonCapVars, mode, now, fieldValue, hostActions, nextPoll,
                    captured, dropped, recPhase, trace, saved >>

\* The page navigates: the window of the old document is gone, with its
\* queue, its pending edits and their timers; the init script sets up an
\* empty queue in the new one.
PageNavigates ==
    /\ Recording
    /\ pageQueue # <<>> \/ pending.active
    /\ pageQueue' = <<>>
    /\ pending' = NoPending
    /\ fieldValue' = 0
    /\ UNCHANGED << nonCapVars, mode, now, hostActions, nextPoll, captured,
                    dropped, recPhase, trace, saved >>

\* One firing of the poll interval: the queue is taken and emptied, each
\* entry goes through recordAction.
Poll ==
    /\ Recording
    /\ now = nextPoll
    /\ hostActions' = RecordAll(hostActions, pageQueue, now)
    /\ dropped' = dropped \cup (Ids(pageQueue) \ Ids(hostActions'))
    /\ pageQueue' = <<>>
    /\ nextPoll' = now + PollIntervalMs
    /\ UNCHANGED << nonCapVars, mode, now, fieldValue, pending, captured,
                    recPhase, trace, saved >>

\* SIGINT or the stop file: RecorderMode.stop up to the write of the record
\* file: stopRecordingSync, getActionsForAct, tracing.stop (twice at most,
\* failing when the browser got the signal first), writeFile.
Stop ==
    /\ Recording
    /\ recPhase' = "stopped"
    /\ saved' = getActionsForAct(hostActions)
    /\ \E traceOk \in BOOLEAN :
          trace' = IF traceOk THEN "finalized" ELSE "unsaved"
    /\ UNCHANGED << nonCapVars, mode, now, fieldValue, pending, pageQueue,
                    hostActions, nextPoll, captured, dropped >>

\* The end of RecorderMode.stop: context.close(), browser.close().
Release ==
    /\ mode = "record"
    /\ recPhase = "stopped"
    /\ recPhase' = "released"
    /\ UNCHANGED << nonCapVars, mode, now, fieldValue, pending, pageQueue,
                    hostActions, nextPoll, captured, dropped, trace, saved >>

\* main, the finally block of executeTestCase: tracing.stop, which can
\* throw and is then only logged.
RunTraceStop ==
    /\ mode = "run"
    /\ recPhase = "recording"
    /\ recPhase' = "stopped"
    /\ \E traceOk \in BOOLEAN :
          trace' = IF traceOk THEN "finalized" ELSE "unsaved"
    /\ UNCHANGED << nonCapVars, mode, now, fieldValue, pending, pageQueue,
                    hostActions, nextPoll, captured, dropped, saved >>

\* main: executor.close() after executeAll.
RunClose ==
    /\ mode = "run"
    /\ recPhase = "stopped"
    /\ recPhase' = "released"
    /\ UNCHANGED << nonCapVars, mode, now, fieldValue, pending, pageQueue,
                    hostActions, nextPoll, captured, dropped, trace, saved >>

\* SIGINT while main runs a case: main installs no handler, the process and
\* its browser end at once.
RunInterrupted ==
    /\ mode = "run"
    /\ recPhase = "recording"
    /\ recPhase' = "released"
    /\ UNCHANGED << nonCapVars, mode, now, fieldValue, pending, pageQueue,
                    hostActions, nextPoll, captured, dropped, trace, saved >>

NextCap ==
    \/ Tick
    \/ \E target \in ClickTargets : Click(target)
    \/ Edit
    \/ Blur
    \/ DebounceFires
    \/ PageNavigates
    \/ Poll
    \/ Stop
    \/ Release
    \/ RunTraceStop
    \/ RunClose
    \/ RunInterrupted

SpecCap == InitCap /\ [][NextCap]_<< vars, xvars >>

\* --------------------------------------- the verdict branch on its own

\* What the stagehand.observe of the fallback can do: return elements,
\* return none, throw.
FallbackObs == {"found", "none", "throws"}

\* The log the catch block of TestExecutor.verifyExpectedResult hands back:
\* the fixed words of a failure, then the descriptions of what was observed
\* (taken here to repeat the expected result, the best case for a match).
FallbackLog(exp, obs) ==
    IF obs = "found" THEN {"shibai"} \cup exp ELSE {"shibai"}

\* Expected results of the cases followed through the verdict branch.
VerdictExpected == {{"dash"}, {"quoted"}}

\* The verdict branch of executeTestCase for a case whose steps passed:
\* verifyExpectedResult, checkResultMatch, status and result.assertionPlan.
caseVerdict(exp, existingPlan, llm, answer, pageUrl, found, obs) ==
    LET v == verifyExpectedResult(exp, existingPlan, llm, answer, pageUrl,
                                  found)
        log == IF v.fallback THEN FallbackLog(exp, obs) ELSE v.log
        matched == checkResultMatch(exp, log)
    IN [status |-> IF matched THEN "passed" ELSE "failed",
        verified |-> matched,
        plan |-> IF matched THEN v.plan ELSE NoPlan,
        plannerCalls |-> v.plannerCalls,
        fallback |-> v.fallback,
        plannerFailed |-> /\ ~ReusesPlan(existingPlan)
                          /\ ~planAssertionsWithAI(exp, llm, answer).ok]

\* A case without a persisted plan, its page and what the AI capability
\* answers, before the run that plans.
InitVerdict ==
    /\ InitCase /\ expected = {"dash"} /\ pw
    /\ assertRun = NoAssertRun
    /\ navRun = NoNavRun
    /\ SchedIdle
    /\ CaptureIdle
    /\ authRun = [stage |-> "none"]
    /\ persistRun = [stage |-> "none"]
    /\ stopRun = [stage |-> "none"]
    /\ execRun = [stage |-> "none"]
    /\ \E exp \in VerdictExpected, llm \in BOOLEAN,
          answer \in PlannerPlans \cup PlannerFailures,
          pageUrl \in PageUrls, found \in SUBSET (1..2), obs \in FallbackObs :
          verdictRun = [stage |-> "new", exp |-> exp, llm |-> llm,
                        answer |-> answer, pageUrl |-> pageUrl,
                        found |-> found, obs |-> obs]

\* The run that plans: no plan is persisted yet; saveTestResults keeps
\* result.assertionPlan of the run.
VerdictCreates ==
    /\ verdictRun.stage = "new"
    /\ LET r == verdictRun
           first == caseVerdict(r.exp, NoPlan, r.llm, r.answer, r.pageUrl,
                                r.found, r.obs)
       IN verdictRun' = [stage |-> "created", exp |-> r.exp, llm |-> r.llm,
                         answer |-> r.answer, pageUrl |-> r.pageUrl,
                         found |-> r.found, obs |-> r.obs, first |-> first,
                         stored |-> PlanToWrite(first.plan, NoPlan)]
    /\ UNCHANGED << nonUnitVars, authRun, persistRun, stopRun, execRun >>

\* The next run: main loads the persisted plan and hands it over as
\* existingPlan; the page is as it was, the AI capability answers anew.
VerdictReloads ==
    /\ verdictRun.stage = "created"
    /\ verdictRun.stored.shape # "none"
    /\ \E llm2 \in BOOLEAN, answer2 \in PlannerPlans \cup PlannerFailures :
          LET r == verdictRun
              second == caseVerdict(r.exp, r.stored, llm2, answer2,
                                    r.pageUrl, r.found, r.obs)
          IN verdictRun' = [stage |-> "reloaded", exp |-> r.exp,
                            llm |-> r.llm, answer |-> r.answer,
                            pageUrl |-> r.pageUrl, found |-> r.found,
                            obs |-> r.obs, first |-> r.first,
                            stored |-> r.stored, llm2 |-> llm2,
                            answer2 |-> answer2, second |-> second]
    /\ UNCHANGED << nonUnitVars, authRun, persistRun, stopRun, execRun >>

NextVerdict ==
    \/ VerdictCreates
    \/ VerdictReloads

SpecVerdict == InitVerdict /\ [][NextVerdict]_<< vars, xvars >>

\* ------------------------------- the provider adapter's call on its own

\* Default of the retries parameter of createChatCompletion.
DefaultRetries == 3

\* What the endpoint can answer one request with: a completion whose content
\* is JSON, is not JSON or is missing, or an error status (401, 403: the
\* credentials are rejected).
ApiResponses ==
    {[status |-> 200, body |-> b] : b \in {"json", "notjson", "empty"}}
    \cup {[status |-> c, body |-> "none"] : c \in {401, 403, 429, 500}}

AuthRejected(resp) == resp.status \in {401, 403}

\* A variant of the retry test that retries after every error status.
Retryable_anyError(code) == code >= 400

\* The retry test of the catch block: error.status === 429 || >= 500.
Retryable(code) == code = 429 \/ code >= 500

RECURSIVE createChatCompletion(_, _, _, _)
\* createChatCompletion with `retries` retries left, the k-th request being
\* answered with resps[k]: the number of requests issued and what the
\* caller gets.
createChatCompletion(resps, k, retries, responseModel) ==
    LET r == resps[k] IN
    IF r.status = 200
    THEN IF ~responseModel \/ r.body = "json"
         THEN [calls |-> k, kind |-> "ok", status |-> 200]
         ELSE IF r.body = "empty"
         THEN [calls |-> k, kind |-> "nocontent", status |-> 200]
         ELSE IF retries > 0
         THEN createChatCompletion(resps, k + 1, retries - 1, responseModel)
         ELSE [calls |-> k, kind |-> "parse", status |-> 200]
    ELSE IF retries > 0 /\ Retryable(r.status)
         THEN createChatCompletion(resps, k + 1, retries - 1, responseModel)
         ELSE [calls |-> k, kind |-> "error", status |-> r.status]

\* One call of the adapter, with or without a response_model, and the
\* answers the endpoint gives to the requests in the order they arrive.
InitAuth ==
    /\ InitCase /\ expected = {"dash"} /\ pw
    /\ assertRun = NoAssertRun
    /\ navRun = NoNavRun
    /\ SchedIdle
    /\ CaptureIdle
    /\ verdictRun = [stage |-> "none"]
    /\ persistRun = [stage |-> "none"]
    /\ stopRun = [stage |-> "none"]
    /\ execRun = [stage |-> "none"]
    /\ \E resps \in [1..(DefaultRetries + 1) -> ApiResponses],
          responseModel \in BOOLEAN :
          authRun = [stage |-> "new", responses |-> resps,
                     responseModel |-> responseModel]

\* The caller awaits createChatCompletion({options}).
CallAdapter ==
    /\ authRun.stage = "new"
    /\ authRun' = [stage |-> "done", responses |-> authRun.responses,
                   responseModel |-> authRun.responseModel,
                   res |-> createChatCompletion(authRun.responses, 1,
                              DefaultRetries, authRun.responseModel)]
    /\ UNCHANGED << nonUnitVars, verdictRun, persistRun, stopRun, execRun >>

NextAuth == CallAdapter

SpecAuth == InitAuth /\ [][NextAuth]_<< vars, xvars >>

\* ------------------------------------------ executeTestCase as a whole

\* What can happen inside one executeTestCase: the executor may not be
\* initialised, a trace may be recorded and tracing.start or tracing.stop
\* may throw, the navigation or a step may throw, the API validation may
\* fail or throw, the expected result may match or not.
ExecInputs ==
    [stagehand : BOOLEAN, recordTrace : BOOLEAN,
     traceStart : {"ok", "throws"}, traceEnd : {"ok", "throws"},
     nav : {"ok", "throws"}, steps : {"pass", "throws"},
     onlyApi : BOOLEAN, api : {"none", "ok", "failed", "throws"},
     hasExpected : BOOLEAN, matched : BOOLEAN]

\* The body of the try block: where it throws, or the status it assigns.
TryBlock(in) ==
    IF ~in.stagehand THEN [threw |-> "init", status |-> "pending"]
    ELSE IF in.recordTrace /\ in.traceStart = "throws"
    THEN [threw |-> "trace", status |-> "pending"]
    ELSE IF in.nav = "throws" THEN [threw |-> "nav", status |-> "pending"]
    ELSE IF in.steps = "throws" THEN [threw |-> "step", status |-> "pending"]
    ELSE IF in.onlyApi
    THEN IF in.api = "throws" THEN [threw |-> "api", status |-> "pending"]
         ELSE IF in.api = "failed" THEN [threw |-> "none", status |-> "failed"]
         ELSE [threw |-> "none", status |-> "passed"]
    ELSE IF in.hasExpected
    THEN [threw |-> "none",
          status |-> IF in.matched THEN "passed" ELSE "failed"]
    ELSE [threw |-> "none", status |-> "passed"]

\* The catch block: status failed.
CatchBlock(t) == "failed"

\* A variant of the finally block whose tracing.stop is not guarded.
FinallyTrace_unguarded(in) ==
    IF in.recordTrace /\ in.stagehand
    THEN IF in.traceEnd = "ok" THEN [tracePath |-> "saved", threw |-> FALSE]
         ELSE [tracePath |-> "none", threw |-> TRUE]
    ELSE [tracePath |-> "none", threw |-> FALSE]

\* The trace part of the finally block: tracing.stop inside its own
\* try/catch, run whenever tracePath was assigned.
FinallyTrace(in) ==
    IF in.recordTrace /\ in.stagehand
    THEN IF in.traceEnd = "ok" THEN [tracePath |-> "saved", threw |-> FALSE]
         ELSE [tracePath |-> "none", threw |-> FALSE]
    ELSE [tracePath |-> "none", threw |-> FALSE]

\* executeTestCase: try, catch, finally, return.
executeTestCase(in) ==
    LET t == TryBlock(in)
        f == FinallyTrace(in)
    IN [returned |-> ~f.threw,
        status |-> IF t.threw # "none" THEN CatchBlock(t) ELSE t.status,
        error |-> t.threw,
        endTime |-> "set",
        tracePath |-> f.tracePath]

InitExec ==
    /\ InitCase /\ expected = {"dash"} /\ pw
    /\ assertRun = NoAssertRun
    /\ navRun = NoNavRun
    /\ SchedIdle
    /\ CaptureIdle
    /\ verdictRun = [stage |-> "none"]
    /\ authRun = [stage |-> "none"]
    /\ persistRun = [stage |-> "none"]
    /\ stopRun = [stage |-> "none"]
    /\ \E in \in ExecInputs : execRun = [stage |-> "new", in |-> in]

\* executeAll awaits executeTestCase(testCase, history).
ExecuteCase ==
    /\ execRun.stage = "new"
    /\ execRun' = [stage |-> "done", in |-> execRun.in,
                   res |-> executeTestCase(execRun.in)]
    /\ UNCHANGED << nonUnitVars, verdictRun, authRun, persistRun, stopRun >>

NextExec == ExecuteCase

SpecExec == InitExec /\ [][NextExec]_<< vars, xvars >>

\* ------------------------ verifyAndPersistRecordedActions on its own

\* The persisted document of the case as one value.
StoreSnap ==
    [caseSteps |-> caseSteps, steps |-> storedSteps, plan |-> storedPlan,
     status |-> storedStatus, error |-> storedError, log |-> storedLog]

\* Results the case can hold when a recording session ends: none, that of a
\* run that failed at its second step, that of a run that passed.
PriorStores ==
    {[caseSteps |-> NSteps, steps |-> <<>>, plan |-> NoPlan,
      status |-> "none", error |-> "none", log |-> <<>>],
     [caseSteps |-> NSteps,
      steps |-> << [actions |-> CandidatesFor(0), attempted |-> "true",
                    timedOut |-> "false"] >>,
      plan |-> NoPlan, status |-> "failed", error |-> "step",
      log |-> <<"begin", "nav", "step", "stepdone", "step", "stepfail",
                "casefail">>],
     [caseSteps |-> NSteps,
      steps |-> [k \in 1..NSteps |->
                    [actions |-> CandidatesFor(k - 1), attempted |-> "true",
                     timedOut |-> "false"]],
      plan |-> PlanGood, status |-> "passed", error |-> "none",
      log |-> <<>>]}

\* The end of a recording session bound to the case: the document as it is,
\* the recorded actions, what the replay and the assertion will meet.
InitPersist ==
    /\ expected \in {{}, {"dash"}}
    /\ \E prior \in PriorStores :
          /\ caseSteps = prior.caseSteps
          /\ storedSteps = prior.steps
          /\ storedPlan = prior.plan
          /\ storedStatus = prior.status
          /\ storedError = prior.error
          /\ storedLog = prior.log
    /\ lastWrite = NoWrite
    /\ pc = "idle"
    /\ hist = <<>>
    /\ histPlan = NoPlan
    /\ pw = TRUE
    /\ i = 0
    /\ runSteps = <<>>
    /\ status = "pending"
    /\ error = "none"
    /\ resultPlan = NoPlan
    /\ resultLog = <<>>
    /\ logBuf = <<>>
    /\ call = NoCall
    /\ aiCalls = 0
    /\ verif = NoVerif
    /\ startedAfter = lastWrite
    /\ assertRun = NoAssertRun
    /\ navRun = NoNavRun
    /\ SchedIdle
    /\ CaptureIdle
    /\ verdictRun = [stage |-> "none"]
    /\ authRun = [stage |-> "none"]
    /\ stopRun = [stage |-> "none"]
    /\ execRun = [stage |-> "none"]
    /\ \E acts \in RecLists, replayOk \in BOOLEAN, llm \in BOOLEAN,
          answer \in PlannerPlans \cup PlannerFailures,
          pageUrl \in PageUrls, found \in SUBSET (1..2) :
          persistRun = [stage |-> "new", acts |-> acts, replayOk |-> replayOk,
                        llm |-> llm, answer |-> answer, pageUrl |-> pageUrl,
                        found |-> found, before |-> StoreSnap]

\* verifyAndPersistRecordedActions(actionsForAct) for the session under
\* observation: without an expected result the actions are written at once;
\* otherwise they are replayed, the expected result is verified, and they
\* are written only if it matched.
PersistRecorded ==
    /\ persistRun.stage = "new"
    /\ LET r == persistRun
           v == RecorderVerdict(expected, r.replayOk, r.llm, r.answer,
                                r.pageUrl, r.found)
       IN /\ IF expected = {}
             THEN writeRecordedSteps(r.acts,
                     [k \in 1..Len(r.acts) |->
                         [attempted |-> "false", timedOut |-> "false"]],
                     NoPlan)
             ELSE IF v.write
             THEN \E waits \in [1..Len(r.acts) -> RecWaits] :
                     writeRecordedSteps(r.acts, waits, v.plan)
             ELSE UNCHANGED storeVars
          /\ persistRun' = [r EXCEPT !.stage = "done"]
    /\ expected' = expected
    /\ UNCHANGED runVars
    /\ UNCHANGED << planVars, schedVars, capVars, verdictRun, authRun,
                    stopRun, execRun >>

NextPersist == PersistRecorded

SpecPersist == InitPersist /\ [][NextPersist]_<< vars, xvars >>

\* ------------------------------- runRecordMode: the calls of stop()

\* Largest number of interrupt signals a recording session receives.
MaxSignals == 2

\* A recording session after recorder.start(): the SIGINT handler and the
\* stop-file poller are installed, stop() has not been called.
InitStop ==
    /\ InitCase /\ expected = {"dash"} /\ pw
    /\ assertRun = NoAssertRun
    /\ navRun = NoNavRun
    /\ SchedIdle
    /\ CaptureIdle
    /\ verdictRun = [stage |-> "none"]
    /\ authRun = [stage |-> "none"]
    /\ persistRun = [stage |-> "none"]
    /\ execRun = [stage |-> "none"]
    /\ \E bound \in BOOLEAN :
          stopRun = [stage |-> "session", bound |-> bound, calls |-> <<>>,
                     signals |-> 0, fileSeen |-> FALSE, traceStops |-> 0,
                     recordWrites |-> 0, storeWrites |-> 0,
                     exited |-> FALSE]

StopUnchanged ==
    UNCHANGED << nonUnitVars, verdictRun, authRun, persistRun, execRun >>

\* The SIGINT handler: recorder.stop() is called, whatever is in progress;
\* the call runs up to its first await.
Sigint ==
    /\ ~stopRun.exited
    /\ stopRun.signals < MaxSignals
    /\ stopRun' = [stopRun EXCEPT !.signals = @ + 1,
                                  !.calls = Append(@, "trace")]
    /\ StopUnchanged

\* The poller finds records/.stop-recording: it clears its own interval and
\* calls recorder.stop().
StopFileSeen ==
    /\ ~stopRun.exited
    /\ ~stopRun.fileSeen
    /\ stopRun' = [stopRun EXCEPT !.fileSeen = TRUE,
                                  !.calls = Append(@, "trace")]
    /\ StopUnchanged

\* Call k of stop(): context.tracing.stop, tried twice at most.
StopTrace(k) ==
    /\ ~stopRun.exited
    /\ stopRun.calls[k] = "trace"
    /\ stopRun' = [stopRun EXCEPT !.traceStops = @ + 1,
                                  !.calls[k] = "write"]
    /\ StopUnchanged

\* Call k of stop(): writeFile of the record file.
StopWrite(k) ==
    /\ ~stopRun.exited
    /\ stopRun.calls[k] = "write"
    /\ stopRun' = [stopRun EXCEPT !.recordWrites = @ + 1,
                                  !.calls[k] = "persist"]
    /\ StopUnchanged

\* Call k of stop(): verifyAndPersistRecordedActions when the session is
\* bound to a case; the data file is written if the replay verified.
StopPersist(k) ==
    /\ ~stopRun.exited
    /\ stopRun.calls[k] = "persist"
    /\ \E wrote \in {w \in BOOLEAN : w => stopRun.bound} :
          stopRun' = [stopRun EXCEPT
                         !.storeWrites = IF wrote THEN @ + 1 ELSE @,
                         !.calls[k] = "close"]
    /\ StopUnchanged

\* Call k of stop(): context.close(), browser.close().
StopClose(k) ==
    /\ ~stopRun.exited
    /\ stopRun.calls[k] = "close"
    /\ stopRun' = [stopRun EXCEPT !.calls[k] = "done"]
    /\ StopUnchanged

\* The promise of call k has resolved: process.exit(0).
StopExit(k) ==
    /\ ~stopRun.exited
    /\ stopRun.calls[k] = "done"
    /\ stopRun' = [stopRun EXCEPT !.exited = TRUE]
    /\ StopUnchanged

\* The calls of stop() made so far.
StopCalls == 1..Len(stopRun.calls)

NextStop ==
    \/ Sigint
    \/ StopFileSeen
    \/ \E k \in StopCalls : StopTrace(k)
    \/ \E k \in StopCalls : StopWrite(k)
    \/ \E k \in StopCalls : StopPersist(k)
    \/ \E k \in StopCalls : StopClose(k)
    \/ \E k \in StopCalls : StopExit(k)

SpecStop == InitStop /\ [][NextStop]_<< vars, xvars >>

\* What runAssertionPlan has to decide for item k of the plan under
\* observation.
ItemHolds(k) ==
    IF assertRun.plan.items[k].kind = "url"
    THEN assertRun.plan.items[k].text \subseteq assertRun.pageUrl
    ELSE k \in assertRun.found

\* C12: running a plan succeeds exactly when every URL item's value is
\* contained in the page URL and every observation item has a match; a
\* failure is raised at the first item that does not hold, names the actual
\* URL when that item is a URL item, and no later item is evaluated.
C12_PlanRunOutcome ==
    assertRun.done =>
       LET n == Len(assertRun.plan.items)
           r == assertRun.res
       IN /\ r.ok <=> \A k \in 1..n : ItemHolds(k)
          /\ r.ok => (r.itemsRun = n /\ r.err.kind = "none")
          /\ ~r.ok =>
                /\ r.itemsRun \in 1..n
                /\ ~ItemHolds(r.itemsRun)
                /\ \A k \in 1..(r.itemsRun - 1) : ItemHolds(k)
                /\ r.err.item = r.itemsRun
                /\ IF assertRun.plan.items[r.itemsRun].kind = "url"
                   THEN /\ r.err.kind = "url"
                        /\ r.err.actual = assertRun.pageUrl
                   ELSE r.err.kind = "notfound"

\* C12 happens: a plan of three items fails at its second item, a URL item,
\* while its third item would not hold either.
C12_Witness ==
    /\ assertRun.done /\ ~assertRun.res.ok
    /\ Len(assertRun.plan.items) = 3
    /\ assertRun.res.itemsRun = 2
    /\ assertRun.res.err.kind = "url"
    /\ assertRun.res.err.actual = {"other"}
    /\ ~ItemHolds(3)

\* The effective cap of the run and the cases whose callback is running.
Cap == maxConcurrency(recordApi, cfgMax, nCases)
InFlight == {c \in 1..nCases : phase[c] \in {"run", "apiLoad", "apiWrite", "close"}}
BatchOf(c) == (c - 1) \div Cap
RunEnded == mainPc \in {"done", "exited"}

\* C14: the run is made of ceil(M/N) batches, each of N cases but possibly
\* the last; at most N cases are in flight; a case starts only when every
\* case of the batches before its own has produced its outcome.
C14_BatchesOfCap ==
    mainPc # "idle" =>
       /\ \A b \in 1..Len(batches) :
             batches[b] = Min(Cap, nCases - (b - 1) * Cap)
       /\ Cardinality(InFlight) <= Cap
       /\ \A c, d \in 1..nCases :
             (phase[c] # "pending" /\ BatchOf(d) < BatchOf(c))
                => phase[d] = "done"
       /\ RunEnded => Len(batches) * Cap >= nCases

\* C15: a session is never closed twice, and when the run has ended every
\* session that was built has been closed once.
C15_SessionClosedOnce ==
    /\ \A c \in 1..Len(closeCalls) : closeCalls[c] <= 1
    /\ RunEnded => \A c \in 1..nCases : session[c] => closeCalls[c] = 1

\* C16: an error of the store write made for one case does not end the run.
C16_StoreErrorsDoNotAbort ==
    \A c \in 1..Len(thrown) :
       thrown[c] = "apiSave" => (mainPc # "exited" /\ phase[c] # "rejected")

\* C17: when the run has ended (for a reason other than the results write
\* failing, and with no recorder write), the result of every case that
\* completed is in the store.
C17_CompletedResultsWritten ==
    (RunEnded /\ abortCause # "saveResults" /\ recPc # "written")
       => \A c \in 1..nCases :
             (phase[c] = "done" /\ outcome[c] \in {"passed", "failed"})
                => ResFact(c) \in file

\* C18: no write of the data file discards a fact the file holds.
C18_WritesKeepStoredData ==
    [][file \subseteq file']_<< vars, xvars >>

\* C19: with API recording on, whatever cap is configured, every batch has
\* one case, at most one case is in flight and at most one is between the
\* load and the write of its saveApiRecords.
C19_RecordApiSerial ==
    recordApi =>
       /\ \A b \in 1..Len(batches) : batches[b] = 1
       /\ Cardinality(InFlight) <= 1
       /\ Cardinality({c \in 1..nCases :
                          phase[c] \in {"apiLoad", "apiWrite"}}) <= 1

\* C19 happens: recording is on with a configured cap of 2, the first case
\* has stored its records and the second is between its load and its write.
C19_Witness ==
    /\ recordApi /\ cfgMax = 2 /\ nCases >= 2
    /\ ApiFact(1) \in file
    /\ phase[2] = "apiWrite"

\* C21: persisted entry k (counted from 1) holds actions of step k - 1 of the
\* case (or actions the recorder captured), and the history entry a run
\* consults for a step is one that step produced.
C21_StepsIndexAligned ==
    /\ \A k \in 1..Len(storedSteps) :
          \A n \in 1..Len(storedSteps[k].actions) :
             storedSteps[k].actions[n].s \in {k - 1, -1}
    /\ \A k \in 1..Len(hist) :
          \A n \in 1..Len(hist[k].actions) :
             hist[k].actions[n].s \in {k - 1, -1}

\* The wait of step k (counted from 1) was attempted according to the
\* persisted steps st, and according to the steps rs of the run being merged.
StoredAttempted(st, k) == k <= Len(st) /\ st[k].attempted = "true"
RunAttempted(rs, k) == k <= Len(rs) /\ rs[k].attempted = "true"

\* C22: every merge of a run leaves, for each step, the OR of the attempted
\* flag persisted before and the one the run recorded for that step; from an
\* empty store this is the OR over all merged runs.
C22_AttemptedIsOrOfRuns ==
    [][(pc = "finished" /\ pc' = "idle") =>
          \A k \in 1..(Len(storedSteps) + Len(runSteps)) :
             StoredAttempted(storedSteps', k)
                <=> (StoredAttempted(storedSteps, k) \/ RunAttempted(runSteps, k))]_vars

\* C23: a persisted result holds the execution log and an error exactly when
\* its status is failed; a passed one holds neither.
C23_LogAndErrorIffFailed ==
    storedStatus # "none" =>
       /\ (storedStatus = "failed") <=> (storedLog # <<>>)
       /\ (storedStatus = "failed") <=> (storedError # "none")

\* C24: a navigation whose first goto times out is retried once, the retry
\* waits for less than the first attempt did, and the navigation fails only
\* if the retry fails too; a first goto that succeeds or fails otherwise is
\* not retried.
C24_NavigationRetriedLooser ==
    (navRun.done /\ navRun.url \in {"noproto", "valid"}) =>
       LET r == navRun.res
       IN /\ r.gotoCalls = IF navRun.first = "timeout" THEN 2 ELSE 1
          /\ navRun.first = "timeout" =>
                /\ WaitRank(r.waits[2]) < WaitRank(r.waits[1])
                /\ r.ok <=> navRun.retry = "ok"

\* C25: when a recording is interrupted, every captured action still in the
\* page queue or pending in the input debounce is in the saved record before
\* the browser session is released.
C25_BufferedFlushedBeforeRelease ==
    (mode = "record" /\ recPhase = "released") =>
       /\ \A k \in 1..Len(pageQueue) :
             pageQueue[k].selector # "" => pageQueue[k].id \in Ids(saved)
       /\ pending.active => pending.lastId \in Ids(saved)

\* C26: on interruption, an open trace is finalized before the browser
\* session that produced it is released.
C26_TraceFinalizedBeforeRelease ==
    recPhase = "released" => trace = "finalized"

\* C27: no step of a recording loses a captured interaction that waits in the
\* page queue: it stays queued, or reaches the recorded action list (or is
\* left out there as a duplicate), also when the page navigates before the
\* next poll.
C27_NoEventLostAcrossNavigation ==
    [][Recording =>
          \A k \in 1..Len(pageQueue) :
             pageQueue[k].id \in Ids(pageQueue') \cup Ids(hostActions') \cup dropped'
      ]_capVars

\* The captured action a is the one action of a burst of edits: it covers
\* every edit of the burst, carries the value the field then had, and was
\* committed at blur or INPUT_DEBOUNCE_MS after the last edit.
CommitsBurst(a, burst, value) ==
    /\ a.type = "type"
    /\ a.id = burst.lastId
    /\ a.edits = burst.edits
    /\ a.value = value
    /\ a.cause = "blur" \/ (a.cause = "timer" /\ a.ts = a.lastEdit + INPUT_DEBOUNCE_MS)

\* C28: a burst of edits to the text field ends with exactly one captured
\* action carrying the field's final value, committed at blur or 600 ms
\* after the last edit, never one action per edit.
C28_BurstYieldsOneAction ==
    [][(Recording /\ pending.active /\ ~pending'.active) =>
          /\ Len(pageQueue') = Len(pageQueue) + 1
          /\ CommitsBurst(pageQueue'[Len(pageQueue')], pending, fieldValue)
      ]_capVars

\* C29: of two captured events with the same type and description that
\* occurred within 500 ms of each other, the second is not in the recorded
\* action list.
C29_NearDuplicatesDropped ==
    \A m, n \in 1..Len(hostActions) :
       (m < n /\ hostActions[m].type = hostActions[n].type
              /\ hostActions[m].desc = hostActions[n].desc)
          => hostActions[n].ts - hostActions[m].ts >= DuplicateWindowMs

\* C30: every action of the recorder's output has a selector resolved from
\* the page element, and an interaction whose selector could not be resolved
\* is not in the output.
C30_OutputHasResolvedSelectors ==
    recPhase \in {"stopped", "released"} =>
       /\ \A k \in 1..Len(saved) : saved[k].selector # ""
       /\ \A k \in 1..Len(hostActions) :
             hostActions[k].selector = "" => hostActions[k].id \notin Ids(saved)

\* The output was produced while the recorded list held a click whose target
\* was no element, next to one that was.
C30_Witness ==
    /\ mode = "record"
    /\ recPhase = "stopped"
    /\ \E k \in 1..Len(hostActions) : hostActions[k].selector = ""
    /\ saved # <<>>

C33_FallbackMatchPasses ==
    (/\ verdictRun.stage = "created"
     /\ verdictRun.first.plannerFailed
     /\ verdictRun.obs = "found") => verdictRun.first.status = "passed"

\* C32: a request the AI capability rejects for bad credentials is never
\* retried by the adapter: it is the last request of the call, and the call
\* ends with that rejection.
C32_AuthFailureNotRetried ==
    authRun.stage = "done" =>
       \A k \in 1..authRun.res.calls :
          AuthRejected(authRun.responses[k]) =>
             /\ authRun.res.calls = k
             /\ authRun.res.kind = "error"
             /\ authRun.res.status = authRun.responses[k].status

\* The credentials were rejected on a request that was itself a retry, with
\* retries left.
C32_Witness ==
    /\ authRun.stage = "done"
    /\ authRun.res.calls \in 2..DefaultRetries
    /\ AuthRejected(authRun.responses[authRun.res.calls])

\* C34: merging a run never shortens the persisted step history: when the
\* run failed at step k > 0, the persisted entries of the steps from k on
\* are still there after the merge.
C34_MergeKeepsLaterEntries ==
    [][(pc = "finished" /\ pc' = "idle") =>
          /\ Len(storedSteps') >= Len(storedSteps)
          /\ (error = "step" /\ i > 0) =>
                \A k \in (i + 1)..Len(storedSteps) :
                   /\ k <= Len(storedSteps')
                   /\ storedSteps'[k] = storedSteps[k]
      ]_vars

\* No step of the execution failed: the loop has ended and the verdict
\* branch is reached or done.
NoStepFailed ==
    /\ pc \in {"assert", "finished"}
    /\ error \notin {"nav", "step"}

\* C35: a run in which no step fails executes one step for every entry of
\* the case's step list, whatever the length of the persisted history.
C35_RunsEveryStepOfCase ==
    NoStepFailed => (i = caseSteps /\ Len(runSteps) = caseSteps)

\* Every item of the plan the assertion phase used was run and held: neither
\* the planner nor an item threw.
PlanVerified ==
    /\ verif.ran
    /\ ~verif.fallback
    /\ verif.itemsRun = Len(verif.used.items)

\* C36: if every step passes and every item of the assertion plan verifies,
\* the case is marked passed, whatever the texts contain.
C36_VerifiedPlanPasses ==
    (pc = "finished" /\ NoStepFailed /\ PlanVerified) => status = "passed"

\* C37: a case with an expected result is marked passed only if every
\* executed step passed and every item of the assertion plan verified in
\* that run.
C37_PassedOnlyIfVerified ==
    (pc = "finished" /\ expected # {} /\ status = "passed") =>
       /\ i = StepCount(hist, caseSteps)
       /\ Len(runSteps) = i
       /\ call.outcome # "failed"
       /\ PlanVerified
       /\ verif.verified

\* A case with an expected result was marked passed after steps were run.
C37_Witness ==
    /\ pc = "finished"
    /\ expected # {}
    /\ status = "passed"
    /\ i > 0

\* C40: executeTestCase never throws: whatever fails (the navigation, a
\* step, the assertion, the trace), it returns a TestResult whose status is
\* passed or failed, never pending, with endTime set.
C40_AlwaysReturnsFinalResult ==
    execRun.stage = "done" =>
       /\ execRun.res.returned
       /\ execRun.res.status \in {"passed", "failed"}
       /\ execRun.res.endTime = "set"

\* An execution in which a step threw and the trace could not be saved has
\* returned.
C40_Witness ==
    /\ execRun.stage = "done"
    /\ execRun.res.error = "step"
    /\ execRun.in.recordTrace
    /\ execRun.in.traceEnd = "throws"
    /\ execRun.res.status = "failed"

\* The replay of the recorded actions succeeded and the assertion that
\* followed verified the expected result: the plan was built, every item of
\* it held and the log matched.
ReplayVerified ==
    LET r == persistRun
        planned == planAssertionsWithAI(expected, r.llm, r.answer)
        ran == runAssertionPlan(planned.plan, r.pageUrl, r.found)
    IN /\ r.replayOk
       /\ planned.ok
       /\ ran.ok
       /\ checkResultMatch(expected, ran.log)

\* C38: recorded actions are written into the case's persisted steps only
\* when the case has no expected result or the replay followed by the
\* assertion verified it; in every other outcome the stored result is left
\* unchanged.
C38_RecordedWrittenOnlyIfVerified ==
    persistRun.stage = "done" =>
       /\ (\E k \in 1..Len(storedSteps) : storedSteps[k].actions[1].s = -1)
             => (expected = {} \/ ReplayVerified)
       /\ ~(expected = {} \/ ReplayVerified) => StoreSnap = persistRun.before

\* A session ended on a case that holds a result and has an expected result
\* the replay did not verify.
C38_Witness ==
    /\ persistRun.stage = "done"
    /\ expected # {}
    /\ ~ReplayVerified
    /\ persistRun.before.status = "passed"

\* C39: the stop-and-save path runs at most once per recording session: a
\* second interrupt, or the stop file, arriving while a stop is in progress
\* starts no second trace finalization, record write or store write.
C39_StopRunsOnce ==
    stopRun.stage = "session" =>
       /\ stopRun.traceStops <= 1
       /\ stopRun.recordWrites <= 1
       /\ stopRun.storeWrites <= 1

====
